---- MODULE Spec2Model ----
(***************************************************************************)
(* HSM orchestration layer of the PQC key platform:                        *)
(*   - CloudHsmConnectionPool      (src/src/hsm/aws_cloudhsm.rs)           *)
(*   - AwsCloudHsmProvider         (src/src/hsm/aws_cloudhsm.rs)           *)
(*   - HsmManager                  (src/src/hsm/mod.rs)                    *)
(*   - ETLPipeline                 (src/src/etl/pipeline.rs)               *)
(*   - ValidationCache             (src/src/adds/validation.rs)            *)
(* Wall-clock fields (created_at, last_used, latencies) carry no control   *)
(* flow and are left out of the records.                                   *)
(***************************************************************************)
EXTENDS Integers, Sequences, FiniteSets, TLC

\* ------------------------------------------------------------------ bounds
MaxPoolSize == 2      \* largest max_connections of the stand-alone pool
MaxProviderPool == 1  \* largest connection_pool_size of a provider's pool
NumCallers == 2       \* concurrent callers of the stand-alone pool
MaxPoolOps == 6       \* pool operations recorded in one behaviour
NumTasks == 2         \* Manager calls in one behaviour, any interleaving
MaxObserved == 2      \* read-only Manager calls recorded in one behaviour
MaxBatchSize == 2     \* largest batch_size of an ETLPipeline
MaxInput == 4         \* longest input of process_transactions
NumThreads == 2       \* threads calling one ValidationCache, one call each
MaxCacheSize == 2     \* largest max_size of a ValidationCache
MaxClock == 1         \* seconds the clock advances in one behaviour
MaxTlsCalls == 4      \* calls made on one TlsSession
MaxBatchCalls == 5    \* calls made on one TransactionBatch
MaxLatencyMs == 2     \* milliseconds a Manager operation can take

Callers == 1..NumCallers
\* the time a Manager call takes: MinLatencyMs in the specifications whose
\* claims do not look at latencies, any of Latencies in LatSpec
MinLatencyMs == 1
Latencies == MinLatencyMs..MaxLatencyMs
Tasks == 1..NumTasks
Threads == 1..NumThreads

VARIABLES
    pool,        \* a stand-alone CloudHsmConnectionPool
    lent,        \* connections checked out of `pool`: <<[owner, conn]>>
    hist,        \* the pool operations completed so far, in order
    config,      \* HsmConfig: enabled backends, timeout_seconds, pool size
    providers,   \* HsmManager.providers: the registered provider types
    ppool,       \* each provider's own connection pool
    pmetrics,    \* each provider's own HsmMetrics (self.metrics)
    mmetrics,    \* HsmManager.metrics: provider type -> HsmMetrics
    audit_trail, \* HsmAuditTrail: the records appended so far
    task,        \* each Manager call: its arguments, locals and position
    iter_order,  \* the order in which HsmManager.providers (a HashMap) iterates
    observed,    \* what the read-only Manager calls returned, in order
    etl,         \* an ETLPipeline and the process_transactions call on it
    vcache,      \* a ValidationCache, the clock and the threads calling it
    tls,         \* a TlsSession and the calls made on it
    tbatch       \* a TransactionBatch and the calls made on it

poolVars == <<pool, lent, hist>>
mgrVars == <<config, providers, ppool, pmetrics, mmetrics, audit_trail, task>>
auxVars == <<iter_order, observed, etl, vcache, tls, tbatch>>
vars == <<pool, lent, hist, config, providers, ppool, pmetrics, mmetrics,
          audit_trail, task, iter_order, observed, etl, vcache, tls, tbatch>>

\* ------------------------------------------------- CloudHsmConnectionPool
NoConn == [id |-> 0, is_busy |-> FALSE]

\* CloudHsmConnectionPool::new
NewPool(max_connections) ==
    [connections |-> <<>>,
     max_connections |-> max_connections,
     current_connections |-> 0]

\* uuid::Uuid::new_v4(): an id no live connection of the pool carries.
\* current_connections only grows, so the count names a fresh id.
NewUuid(p) == p.current_connections + 1

\* Vec::pop: the last element, if any
VecLast(s) == s[Len(s)]
VecPop(s) == SubSeq(s, 1, Len(s) - 1)

\* faulty variant: the limit check admits one connection too many
UnderLimitOffByOne(current_count, max_connections) == current_count <= max_connections

\* `if current_count < self.max_connections`
UnderLimit(current_count, max_connections) == current_count < max_connections

\* faulty variant: the idle connection is handed out but stays on the idle list
get_connection_no_pop(p) ==
    IF Len(p.connections) > 0
    THEN [pool |-> p, res |-> "Ok",
          conn |-> [VecLast(p.connections) EXCEPT !.is_busy = TRUE]]
    ELSE IF UnderLimit(p.current_connections, p.max_connections)
    THEN [pool |-> [p EXCEPT !.current_connections = p.current_connections + 1],
          res  |-> "Ok",
          conn |-> [id |-> NewUuid(p), is_busy |-> TRUE]]
    ELSE [pool |-> p, res |-> "ResourceExhausted", conn |-> NoConn]

\* get_connection: the whole body runs under connections.write(), so the
\* body is one atomic step.  Result: the pool afterwards, Ok/Err, the
\* connection handed out.
get_connection(p) ==
    IF Len(p.connections) > 0
    THEN [pool |-> [p EXCEPT !.connections = VecPop(p.connections)],
          res  |-> "Ok",
          conn |-> [VecLast(p.connections) EXCEPT !.is_busy = TRUE]]
    ELSE IF UnderLimit(p.current_connections, p.max_connections)
    THEN [pool |-> [p EXCEPT !.current_connections = p.current_connections + 1],
          res  |-> "Ok",
          conn |-> [id |-> NewUuid(p), is_busy |-> TRUE]]
    ELSE [pool |-> p, res |-> "ResourceExhausted", conn |-> NoConn]

\* faulty variant: the returned connection is dropped instead of pushed
return_connection_dropped(p, connection) == p

\* return_connection: clear the busy flag, push on the idle list
return_connection(p, connection) ==
    [p EXCEPT !.connections = Append(p.connections,
                                     [connection EXCEPT !.is_busy = FALSE])]

\* Remove the i-th element of a sequence
RemoveAt(s, i) == SubSeq(s, 1, i - 1) \o SubSeq(s, i + 1, Len(s))

\* A caller invokes pool.get_connection().await
PoolGet(c) ==
    /\ Len(hist) < MaxPoolOps
    /\ LET r == get_connection(pool) IN
        /\ pool' = r.pool
        /\ lent' = IF r.res = "Ok"
                   THEN Append(lent, [owner |-> c, conn |-> r.conn])
                   ELSE lent
        /\ hist' = Append(hist, [op |-> "get", res |-> r.res, id |-> r.conn.id,
                                 full |-> FALSE])
    /\ UNCHANGED mgrVars
    /\ UNCHANGED auxVars

\* A caller invokes pool.return_connection(conn).await with a connection it holds
PoolReturn(c) ==
    /\ Len(hist) < MaxPoolOps
    /\ \E i \in 1..Len(lent) :
        /\ lent[i].owner = c
        /\ pool' = return_connection(pool, lent[i].conn)
        /\ lent' = RemoveAt(lent, i)
        /\ hist' = Append(hist, [op |-> "return", res |-> "Ok", id |-> lent[i].conn.id,
                                 full |-> (pool.current_connections = pool.max_connections
                                           /\ Len(pool.connections) = 0)])
    /\ UNCHANGED mgrVars
    /\ UNCHANGED auxVars

\* ---------------------------------------------------------- specifications
\* the parts of the platform a specification does not exercise stay as built
EtlIdle == etl = [pc |-> "unused"]
CacheIdle == vcache = [pc |-> "unused"]
TlsIdle == tls = [pc |-> "unused"]
BatchIdle == tbatch = [pc |-> "unused"]
AddsIdle == TlsIdle /\ BatchIdle
AuxIdle ==
    /\ iter_order = <<>>
    /\ observed = <<>>
    /\ EtlIdle
    /\ CacheIdle
    /\ AddsIdle

MgrIdle ==
    /\ config = [enabled |-> {}, timeout_seconds |-> 0, pool_size |-> 0]
    /\ providers = {}
    /\ ppool = <<>>
    /\ pmetrics = <<>>
    /\ mmetrics = <<>>
    /\ audit_trail = <<>>
    /\ task = <<>>

PoolInit ==
    /\ \E n \in 0..MaxPoolSize : pool = NewPool(n)
    /\ lent = <<>>
    /\ hist = <<>>
    /\ MgrIdle
    /\ AuxIdle

PoolNext == \E c \in Callers : PoolGet(c) \/ PoolReturn(c)

PoolSpec == PoolInit /\ [][PoolNext]_vars

\* ------------------------------------------------------------ domain types
\* enum HsmProviderType; the three vendor PKCS#11 variants behave like
\* SoftwareOnly here (HsmManager::new never registers them)
RegistrableProviders == {"AwsCloudHsm", "AzureKeyVault", "Pkcs11Generic"}
HsmProviderType == RegistrableProviders \cup {"SoftwareOnly"}

\* enum PqcAlgorithm
PqcAlgorithm == {"Kyber1024", "Dilithium3", "SphincsPlusSha256128s",
                 "HybridRsaKyber", "HybridEcdsaDilithium"}

\* the algorithms drawn for Manager calls: one KEM, one signature scheme and
\* one hybrid; SelSpec below ranges over all of PqcAlgorithm
DrawnAlgorithms == {"Kyber1024", "Dilithium3", "HybridRsaKyber"}

KeyOrder == <<"k1", "k2">>
KeyIds == {KeyOrder[i] : i \in 1..Len(KeyOrder)}
None == "None"
\* the preferred_provider arguments drawn for Manager calls: absent, or one
\* backend, which is registered under some configurations and not under others
Preferences == {None, "AzureKeyVault"}

\* AwsCloudHsmConfig::default().timeout_seconds
DefaultTimeoutSeconds == 30

\* ------------------------------------------------------------- HsmManager
\* faulty variant: the managed vault is registered without looking at azure_enabled
HsmManager_new_azure_unconditional(cfg) == cfg.enabled \cup {"AzureKeyVault"}

\* HsmManager::new: one provider per enabled flag
HsmManager_new(cfg) == cfg.enabled

\* faulty variant: the Kyber ranking falls back to the managed vault before PKCS#11
select_optimal_provider_kyber_swapped(cfg, algorithm) ==
    IF "AwsCloudHsm" \in cfg.enabled THEN "AwsCloudHsm"
    ELSE IF "AzureKeyVault" \in cfg.enabled THEN "AzureKeyVault"
    ELSE "Pkcs11Generic"

\* faulty variant: every algorithm is sent to the cloud HSM, enabled or not
select_optimal_provider_always_aws(cfg, algorithm) == "AwsCloudHsm"

\* faulty variant: Dilithium3 is ranked like Kyber, cloud HSM before PKCS#11
select_optimal_provider_dilithium_as_kyber(cfg, algorithm) ==
    CASE algorithm = "SphincsPlusSha256128s" ->
            IF "AzureKeyVault" \in cfg.enabled THEN "AzureKeyVault"
            ELSE IF "Pkcs11Generic" \in cfg.enabled THEN "Pkcs11Generic"
            ELSE "AwsCloudHsm"
      [] algorithm \in {"Kyber1024", "Dilithium3"} ->
            IF "AwsCloudHsm" \in cfg.enabled THEN "AwsCloudHsm"
            ELSE IF "Pkcs11Generic" \in cfg.enabled THEN "Pkcs11Generic"
            ELSE "AzureKeyVault"
      [] OTHER ->
            IF "AwsCloudHsm" \in cfg.enabled THEN "AwsCloudHsm"
            ELSE IF "AzureKeyVault" \in cfg.enabled THEN "AzureKeyVault"
            ELSE "Pkcs11Generic"

\* HsmManager::select_optimal_provider
select_optimal_provider(cfg, algorithm) ==
    CASE algorithm = "Kyber1024" ->
            IF "AwsCloudHsm" \in cfg.enabled THEN "AwsCloudHsm"
            ELSE IF "Pkcs11Generic" \in cfg.enabled THEN "Pkcs11Generic"
            ELSE "AzureKeyVault"
      [] algorithm = "Dilithium3" ->
            IF "Pkcs11Generic" \in cfg.enabled THEN "Pkcs11Generic"
            ELSE IF "AwsCloudHsm" \in cfg.enabled THEN "AwsCloudHsm"
            ELSE "AzureKeyVault"
      [] algorithm = "SphincsPlusSha256128s" ->
            IF "AzureKeyVault" \in cfg.enabled THEN "AzureKeyVault"
            ELSE IF "Pkcs11Generic" \in cfg.enabled THEN "Pkcs11Generic"
            ELSE "AwsCloudHsm"
      [] OTHER ->
            IF "AwsCloudHsm" \in cfg.enabled THEN "AwsCloudHsm"
            ELSE IF "AzureKeyVault" \in cfg.enabled THEN "AzureKeyVault"
            ELSE "Pkcs11Generic"

\* faulty variant: the ranking overrides the caller's preference
ResolveProviderIgnoringPreference(cfg, algorithm, preferred_provider) ==
    select_optimal_provider(cfg, algorithm)

\* faulty variant: the ranking passes over a provider that has failed
ResolveProviderAvoidingFailures(cfg, algorithm, preferred_provider) ==
    IF preferred_provider # None
    THEN preferred_provider
    ELSE LET best == select_optimal_provider(cfg, algorithm)
             healthy == {p \in DOMAIN pmetrics : pmetrics[p].failed_operations = 0}
         IN IF best \in healthy \/ healthy = {} THEN best
            ELSE CHOOSE p \in healthy : TRUE

\* preferred_provider.unwrap_or_else(|| self.select_optimal_provider(&algorithm))
ResolveProvider(cfg, algorithm, preferred_provider) ==
    IF preferred_provider # None
    THEN preferred_provider
    ELSE select_optimal_provider(cfg, algorithm)

\* HsmMetrics::new and the or_insert_with value of update_metrics
NewMetrics ==
    [total_operations |-> 0, successful_operations |-> 0, failed_operations |-> 0]

\* the Manager's own entry for a provider: the or_insert_with value of
\* update_metrics, with the peak of the latencies it was given
NewManagerMetrics ==
    [total_operations |-> 0, successful_operations |-> 0, failed_operations |-> 0,
     peak_latency_ms |-> 0]

Max(a, b) == IF a >= b THEN a ELSE b

\* HsmManager::update_metrics, the whole of it under `metrics.write()`: only
\* total_operations and the latency aggregates of the Manager's own entry
\* change
update_metrics(m, provider_type, latency_ms) ==
    [q \in DOMAIN m \cup {provider_type} |->
        LET old == IF q \in DOMAIN m THEN m[q] ELSE NewManagerMetrics IN
        IF q = provider_type
        THEN [old EXCEPT !.total_operations = old.total_operations + 1,
                         !.peak_latency_ms = Max(old.peak_latency_ms, latency_ms)]
        ELSE old]

\* ---------------------------------------------------- AwsCloudHsmProvider
\* the match arms of generate_hardware_key
Supported(algorithm) ==
    algorithm \in {"Kyber1024", "Dilithium3", "SphincsPlusSha256128s"}

\* faulty variant: a zero timeout is treated as "no timeout"
TimerFiresAtFirstPollNever(timeout_seconds) == FALSE

\* timeout(Duration::from_secs(timeout_seconds), fut): the future is polled
\* once, then the timer is looked at; a zero duration has elapsed by then
TimerFiresAtFirstPoll(timeout_seconds) == timeout_seconds = 0

\* generate_pqc_key -> timeout(generate_hardware_key) up to the first
\* suspension (the simulated hardware sleep).  A connection taken from the
\* pool is only given back by the return_connection call after the sleep:
\* the early `return Err` and the dropped future both let it go.
generate_start(p, algorithm, timeout_seconds) ==
    LET r == get_connection(p) IN
    IF r.res # "Ok"
    THEN [pool |-> r.pool, outcome |-> "ResourceExhausted", conn |-> NoConn]
    ELSE IF ~Supported(algorithm)
    THEN [pool |-> r.pool, outcome |-> "UnsupportedAlgorithm", conn |-> NoConn]
    ELSE IF TimerFiresAtFirstPoll(timeout_seconds)
    THEN [pool |-> r.pool, outcome |-> "OperationTimeout", conn |-> NoConn]
    ELSE [pool |-> r.pool, outcome |-> "Pending", conn |-> r.conn]

\* faulty variant: a failure is counted twice, as a retried call would count it
record_outcome_retried(m, outcome) ==
    IF outcome = "Ok"
    THEN [m EXCEPT !.successful_operations = m.successful_operations + 1]
    ELSE [m EXCEPT !.failed_operations = m.failed_operations + 2]

\* the three match arms of AwsCloudHsmProvider::generate_pqc_key
record_outcome(m, outcome) ==
    IF outcome = "Ok"
    THEN [m EXCEPT !.successful_operations = m.successful_operations + 1]
    ELSE [m EXCEPT !.failed_operations = m.failed_operations + 1]

\* ------------------------------------------------------------ HsmAuditTrail
\* the OperationContext built inside HsmManager::generate_pqc_key
ManagerContext ==
    [user_id |-> "olafcio42", application_id |-> "pqc-kyber-system",
     session_id |-> "Uuid::new_v4", audit_required |-> TRUE]

\* HsmAuditTrail::record_key_generation: append one record
record_key_generation(trail, key_id, algorithm, provider_type, result, context) ==
    Append(trail, [operation |-> "KeyGeneration", key_id |-> key_id,
                   algorithm |-> algorithm, provider |-> provider_type,
                   outcome |-> IF result = "Ok" THEN "success" ELSE "failed",
                   context |-> context])

\* ------------------------------------------- HsmManager::generate_pqc_key
IdleTask ==
    [pc |-> "idle", algorithm |-> None, key_id |-> None, preferred |-> None,
     provider_type |-> None, invoked |-> <<>>, conn |-> NoConn,
     presult |-> None, result |-> None,
     \* `start_time.elapsed()` as update_metrics was given it
     latency_ms |-> 0,
     \* bookkeeping of what this call did: the audit records it appended,
     \* what it added to its provider's failed counter, and whether every
     \* other call had returned when it started
     appended |-> <<>>, failed_added |-> 0, sequential |-> FALSE]

\* Key names are interchangeable: a call uses a key_id an earlier call used,
\* or the first one not used yet
UsedKeys == {task[u].key_id : u \in Tasks} \ {None}
DrawableKeys ==
    UsedKeys \cup
    {KeyOrder[i] : i \in {j \in 1..Len(KeyOrder) :
                              /\ KeyOrder[j] \notin UsedKeys
                              /\ \A k \in 1..(j-1) : KeyOrder[k] \in UsedKeys}}

\* Lines 283-296 up to the provider's first suspension
GenCall(t, algorithm, key_id, preferred_provider) ==
    /\ task[t].pc = "idle"
    \* calls are interchangeable: they start in index order
    /\ \A u \in Tasks : u < t => task[u].pc # "idle"
    /\ LET provider_type == ResolveProvider(config, algorithm, preferred_provider)
           args == [task[t] EXCEPT !.algorithm = algorithm, !.key_id = key_id,
                                   !.preferred = preferred_provider,
                                   !.provider_type = provider_type,
                                   !.sequential =
                                       \A u \in Tasks \ {t} :
                                           task[u].pc \in {"idle", "done"}]
       IN
       IF provider_type \notin providers
       THEN /\ task' = [task EXCEPT ![t] =
                          [args EXCEPT !.pc = "done", !.result = "ProviderUnavailable"]]
            /\ UNCHANGED <<ppool, pmetrics>>
       ELSE LET r == generate_start(ppool[provider_type], algorithm,
                                    config.timeout_seconds)
                inv == [args EXCEPT !.invoked = <<provider_type>>]
                m == record_outcome(pmetrics[provider_type], r.outcome)
            IN
            /\ ppool' = [ppool EXCEPT ![provider_type] = r.pool]
            /\ IF r.outcome = "Pending"
               THEN /\ task' = [task EXCEPT ![t] =
                                  [inv EXCEPT !.pc = "sleeping", !.conn = r.conn]]
                    /\ UNCHANGED pmetrics
               ELSE /\ task' = [task EXCEPT ![t] =
                                  [inv EXCEPT !.pc = "audit", !.presult = r.outcome,
                                              !.failed_added =
                                                  m.failed_operations -
                                                  pmetrics[provider_type].failed_operations]]
                    /\ pmetrics' = [pmetrics EXCEPT ![provider_type] = m]
    /\ UNCHANGED <<config, providers, mmetrics, audit_trail>>
    /\ UNCHANGED poolVars
    /\ UNCHANGED auxVars

\* The simulated hardware operation completes: the connection goes back to
\* the pool and the provider counts a success
GenWake(t) ==
    /\ task[t].pc = "sleeping"
    /\ LET p == task[t].provider_type
           m == record_outcome(pmetrics[p], "Ok")
       IN
        /\ ppool' = [ppool EXCEPT ![p] = return_connection(@, task[t].conn)]
        /\ pmetrics' = [pmetrics EXCEPT ![p] = m]
        /\ task' = [task EXCEPT ![t].pc = "audit", ![t].presult = "Ok",
                                ![t].conn = NoConn,
                                ![t].failed_added =
                                    m.failed_operations - pmetrics[p].failed_operations]
    /\ UNCHANGED <<config, providers, mmetrics, audit_trail>>
    /\ UNCHANGED poolVars
    /\ UNCHANGED auxVars

\* The timer wins the race while the operation is suspended: the future is
\* dropped together with the connection it holds
GenTimeout(t) ==
    /\ task[t].pc = "sleeping"
    /\ LET p == task[t].provider_type
           m == record_outcome(pmetrics[p], "OperationTimeout")
       IN
        /\ pmetrics' = [pmetrics EXCEPT ![p] = m]
        /\ task' = [task EXCEPT ![t].pc = "audit", ![t].presult = "OperationTimeout",
                                ![t].conn = NoConn,
                                ![t].failed_added =
                                    m.failed_operations - pmetrics[p].failed_operations]
    /\ UNCHANGED <<config, providers, ppool, mmetrics, audit_trail>>
    /\ UNCHANGED poolVars
    /\ UNCHANGED auxVars

\* Lines 298-327: record_key_generation(...).await? (a failed write returns
\* its error from generate_pqc_key), then update_metrics, then the
\* provider's result is returned.  latency_ms: what `start_time.elapsed()`
\* comes to, in milliseconds
GenFinish(t, latency_ms) ==
    /\ task[t].pc = "audit"
    /\ \/ LET trail == record_key_generation(audit_trail, task[t].key_id,
                                             task[t].algorithm, task[t].provider_type,
                                             task[t].presult, ManagerContext)
          IN /\ audit_trail' = trail
             /\ mmetrics' = update_metrics(mmetrics, task[t].provider_type, latency_ms)
             /\ task' = [task EXCEPT ![t].pc = "done",
                                     ![t].appended = Append(@, trail[Len(trail)]),
                                     ![t].result = task[t].presult,
                                     ![t].latency_ms = latency_ms]
       \/ /\ task' = [task EXCEPT ![t].pc = "done", ![t].result = "AuditError"]
          /\ UNCHANGED <<audit_trail, mmetrics>>
    /\ UNCHANGED <<config, providers, ppool, pmetrics>>
    /\ UNCHANGED poolVars
    /\ UNCHANGED auxVars

PoolIdle ==
    /\ pool = NewPool(0)
    /\ lent = <<>>
    /\ hist = <<>>

\* HsmManager::new(config): the registry, one pool and one metrics record
\* per registered provider, no call started
ManagerBuilt ==
    /\ \E enabled \in SUBSET RegistrableProviders,
          timeout_seconds \in {0, DefaultTimeoutSeconds},
          pool_size \in 1..MaxProviderPool :
            config = [enabled |-> enabled, timeout_seconds |-> timeout_seconds,
                      pool_size |-> pool_size]
    /\ providers = HsmManager_new(config)
    /\ ppool = [p \in providers |-> NewPool(config.pool_size)]
    /\ pmetrics = [p \in providers |-> NewMetrics]
    /\ mmetrics = <<>>
    /\ audit_trail = <<>>
    /\ task = [t \in Tasks |-> IdleTask]

MgrInit ==
    /\ ManagerBuilt
    /\ PoolIdle
    /\ AuxIdle

MgrNext ==
    \E t \in Tasks :
        \/ \E algorithm \in DrawnAlgorithms, key_id \in DrawableKeys, pref \in Preferences :
               GenCall(t, algorithm, key_id, pref)
        \/ GenWake(t)
        \/ GenTimeout(t)
        \/ GenFinish(t, MinLatencyMs)

MgrSpec == MgrInit /\ [][MgrNext]_vars

\* Provider resolution on its own (lines 286-288): the first statement of
\* generate_pqc_key applied to every algorithm and every preference
Select(t, algorithm, preferred_provider) ==
    /\ task[t].pc = "idle"
    /\ \A u \in Tasks : u < t => task[u].pc # "idle"
    /\ task' = [task EXCEPT ![t].pc = "resolved",
                            ![t].algorithm = algorithm,
                            ![t].preferred = preferred_provider,
                            ![t].provider_type =
                                ResolveProvider(config, algorithm, preferred_provider)]
    /\ UNCHANGED <<config, providers, ppool, pmetrics, mmetrics, audit_trail>>
    /\ UNCHANGED poolVars
    /\ UNCHANGED auxVars

SelNext ==
    \E t \in Tasks, algorithm \in PqcAlgorithm,
       preferred_provider \in HsmProviderType \cup {None} :
        Select(t, algorithm, preferred_provider)

SelSpec == MgrInit /\ [][SelNext]_vars

\* ------------------------------ HsmManager::get_key and crypto_operation
\* the operations drawn for crypto_operation calls: a Verify whose data does
\* not match, audited; a Verify whose data matches, not audited; a Sign,
\* audited
CallerContext(audit_required) ==
    [user_id |-> "caller", application_id |-> "caller-app",
     session_id |-> "caller-session", audit_required |-> audit_required]

DrawnOperations ==
    {[operation_type |-> "Verify", data_matches |-> FALSE,
      context |-> CallerContext(TRUE)],
     [operation_type |-> "Verify", data_matches |-> TRUE,
      context |-> CallerContext(FALSE)],
     [operation_type |-> "Sign", data_matches |-> TRUE,
      context |-> CallerContext(TRUE)]}

\* the algorithms drawn for generate_pqc_key calls next to get_key and
\* crypto_operation calls
OpsAlgorithms == {"Kyber1024", "SphincsPlusSha256128s"}

\* retrieve_hardware_key after its sleep: a handle is made up for whatever
\* key_id was asked for; the backend keeps no record of generated keys
retrieve_hardware_key(provider_type, key_id) ==
    [res |-> "Ok",
     handle |-> [key_id |-> key_id, algorithm |-> "Kyber1024",
                 provider |-> provider_type]]

\* the CryptoResult perform_crypto_operation builds after its sleep: the
\* operation is simulated, success is the literal true
perform_crypto_operation(operation) == [success |-> TRUE, error_code |-> None]

\* faulty variant: the record is written whether or not the context asks for it
AuditWanted_always(operation) == TRUE

\* `if operation.context.audit_required`
AuditWanted(operation) == operation.context.audit_required

\* faulty variant: the ledger keeps only its latest record
record_crypto_operation_overwriting(trail, key_id, operation, result) ==
    <<[operation |-> operation.operation_type, key_id |-> key_id,
       algorithm |-> None, provider |-> None,
       outcome |-> IF result = "Ok" THEN "success" ELSE "failed",
       context |-> operation.context]>>

\* HsmAuditTrail::record_crypto_operation: append one record
record_crypto_operation(trail, key_id, operation, result) ==
    Append(trail, [operation |-> operation.operation_type, key_id |-> key_id,
                   algorithm |-> None, provider |-> None,
                   outcome |-> IF result = "Ok" THEN "success" ELSE "failed",
                   context |-> operation.context])

\* a call of any of the three Manager operations
IdleOpTask ==
    [pc |-> "idle", algorithm |-> None, key_id |-> None, preferred |-> None,
     provider_type |-> None, invoked |-> <<>>, conn |-> NoConn,
     presult |-> None, result |-> None,
     appended |-> <<>>, failed_added |-> 0, sequential |-> FALSE,
     \* get_key / crypto_operation: which operation, its CryptoOperation, the
     \* position of the providers iteration, the handle found, the
     \* provider's CryptoResult, and whether the audit write failed
     kind |-> "generate_pqc_key", operation |-> None, next |-> 0,
     handle |-> None, cresult |-> None, audit_failed |-> FALSE]

\* the key ids some generate_pqc_key call has been started for
Generated ==
    {task[u].key_id : u \in {v \in Tasks : /\ task[v].kind = "generate_pqc_key"
                                            /\ task[v].pc # "idle"}}

\* HsmManager::get_key is entered
GetKeyCall(t, key_id) ==
    /\ task[t].pc = "idle"
    /\ \A u \in Tasks : u < t => task[u].pc # "idle"
    /\ task' = [task EXCEPT ![t].pc = "lookup", ![t].kind = "get_key",
                            ![t].key_id = key_id, ![t].next = 1]
    /\ UNCHANGED <<config, providers, ppool, pmetrics, mmetrics, audit_trail>>
    /\ UNCHANGED poolVars
    /\ UNCHANGED auxVars

\* HsmManager::crypto_operation is entered: it starts with get_key
CryptoCall(t, key_id, operation) ==
    /\ task[t].pc = "idle"
    /\ \A u \in Tasks : u < t => task[u].pc # "idle"
    /\ task' = [task EXCEPT ![t].pc = "lookup", ![t].kind = "crypto_operation",
                            ![t].key_id = key_id, ![t].operation = operation,
                            ![t].next = 1]
    /\ UNCHANGED <<config, providers, ppool, pmetrics, mmetrics, audit_trail>>
    /\ UNCHANGED poolVars
    /\ UNCHANGED auxVars

\* One turn of `for (provider_type, provider) in providers.iter()`: the
\* provider's get_key up to its sleep (an Err makes the loop continue), or
\* the end of the loop ("Key not found in any provider", which the `?` of
\* crypto_operation passes on)
LookupStep(t) ==
    /\ task[t].pc = "lookup"
    /\ IF task[t].next > Len(iter_order)
       THEN /\ task' = [task EXCEPT ![t].pc = "done", ![t].result = "KeyNotFound"]
            /\ UNCHANGED ppool
       ELSE LET p == iter_order[task[t].next]
                r == get_connection(ppool[p])
            IN
            /\ ppool' = [ppool EXCEPT ![p] = r.pool]
            /\ IF r.res = "Ok"
               THEN task' = [task EXCEPT ![t].pc = "retrieving", ![t].conn = r.conn]
               ELSE task' = [task EXCEPT ![t].next = @ + 1]
    /\ UNCHANGED <<config, providers, pmetrics, mmetrics, audit_trail>>
    /\ UNCHANGED poolVars
    /\ UNCHANGED auxVars

\* The provider's get_key wakes up: connection back, handle returned.
\* get_key returns it; crypto_operation goes on with the handle's provider
LookupWake(t) ==
    /\ task[t].pc = "retrieving"
    /\ LET p == iter_order[task[t].next]
           r == retrieve_hardware_key(p, task[t].key_id)
       IN
        /\ ppool' = [ppool EXCEPT ![p] = return_connection(@, task[t].conn)]
        /\ task' =
             IF r.res # "Ok"
             THEN [task EXCEPT ![t].pc = "lookup", ![t].next = @ + 1,
                               ![t].conn = NoConn]
             ELSE IF task[t].kind = "get_key"
             THEN [task EXCEPT ![t].pc = "done", ![t].result = "Ok",
                               ![t].handle = r.handle, ![t].conn = NoConn]
             ELSE [task EXCEPT ![t].pc = "operate", ![t].handle = r.handle,
                               ![t].provider_type = r.handle.provider,
                               ![t].conn = NoConn]
    /\ UNCHANGED <<config, providers, pmetrics, mmetrics, audit_trail>>
    /\ UNCHANGED poolVars
    /\ UNCHANGED auxVars

\* crypto_operation lines 357-360: the handle's provider is looked up and
\* its crypto_operation runs up to its sleep
CryptoStart(t) ==
    /\ task[t].pc = "operate"
    /\ IF task[t].provider_type \notin providers
       THEN /\ task' = [task EXCEPT ![t].pc = "done",
                                    ![t].result = "ProviderUnavailable"]
            /\ UNCHANGED ppool
       ELSE LET p == task[t].provider_type
                r == get_connection(ppool[p])
            IN
            /\ ppool' = [ppool EXCEPT ![p] = r.pool]
            /\ task' =
                 IF r.res = "Ok"
                 THEN [task EXCEPT ![t].pc = "operating", ![t].conn = r.conn,
                                   ![t].invoked = <<p>>]
                 ELSE [task EXCEPT ![t].pc = "crypto_audit",
                                   ![t].presult = "ResourceExhausted",
                                   ![t].invoked = <<p>>]
    /\ UNCHANGED <<config, providers, pmetrics, mmetrics, audit_trail>>
    /\ UNCHANGED poolVars
    /\ UNCHANGED auxVars

\* The provider's crypto_operation wakes up: connection back, CryptoResult built
CryptoWake(t) ==
    /\ task[t].pc = "operating"
    /\ ppool' = [ppool EXCEPT ![task[t].provider_type] =
                                 return_connection(@, task[t].conn)]
    /\ task' = [task EXCEPT ![t].pc = "crypto_audit", ![t].presult = "Ok",
                            ![t].cresult = perform_crypto_operation(task[t].operation),
                            ![t].conn = NoConn]
    /\ UNCHANGED <<config, providers, pmetrics, mmetrics, audit_trail>>
    /\ UNCHANGED poolVars
    /\ UNCHANGED auxVars

\* crypto_operation lines 362-373: the audit record if the context asks for
\* one (a failed write returns its error through the `?`), update_metrics,
\* the provider's result
CryptoFinish(t, latency_ms) ==
    /\ task[t].pc = "crypto_audit"
    /\ \/ LET wanted == AuditWanted(task[t].operation)
              trail == IF wanted
                       THEN record_crypto_operation(audit_trail, task[t].key_id,
                                                    task[t].operation, task[t].presult)
                       ELSE audit_trail
          IN /\ audit_trail' = trail
             /\ mmetrics' = update_metrics(mmetrics, task[t].provider_type, latency_ms)
             /\ task' = [task EXCEPT ![t].pc = "done",
                                     ![t].appended =
                                         IF wanted THEN Append(@, trail[Len(trail)])
                                         ELSE @,
                                     ![t].result = task[t].presult,
                                     ![t].latency_ms = latency_ms]
       \/ /\ AuditWanted(task[t].operation)
          /\ task' = [task EXCEPT ![t].pc = "done", ![t].result = "AuditError",
                                  ![t].audit_failed = TRUE]
          /\ UNCHANGED <<audit_trail, mmetrics>>
    /\ UNCHANGED <<config, providers, ppool, pmetrics>>
    /\ UNCHANGED poolVars
    /\ UNCHANGED auxVars

\* the orders in which a HashMap holding the providers in `s` can iterate
RECURSIVE IterationOrders(_)
IterationOrders(s) ==
    IF s = {} THEN {<<>>}
    ELSE UNION {{<<p>> \o rest : rest \in IterationOrders(s \ {p})} : p \in s}

OpsInit ==
    /\ \E enabled \in SUBSET RegistrableProviders,
          timeout_seconds \in {0, DefaultTimeoutSeconds},
          pool_size \in 1..MaxProviderPool :
            config = [enabled |-> enabled, timeout_seconds |-> timeout_seconds,
                      pool_size |-> pool_size]
    /\ providers = HsmManager_new(config)
    /\ ppool = [p \in providers |-> NewPool(config.pool_size)]
    /\ pmetrics = [p \in providers |-> NewMetrics]
    /\ mmetrics = <<>>
    /\ audit_trail = <<>>
    /\ task = [t \in Tasks |-> IdleOpTask]
    /\ iter_order \in IterationOrders(providers)
    /\ observed = <<>>
    /\ EtlIdle
    /\ CacheIdle
    /\ AddsIdle
    /\ PoolIdle

\* Calls are made one after another here: a call starts once every earlier
\* call has returned (MgrSpec has the overlapping generate_pqc_key calls)
AllReturned == \A u \in Tasks : task[u].pc \in {"idle", "done"}

OpsNext ==
    \E t \in Tasks :
        \/ /\ AllReturned
           /\ \E algorithm \in OpsAlgorithms, key_id \in DrawableKeys :
                 GenCall(t, algorithm, key_id, None)
        \/ GenWake(t)
        \/ GenTimeout(t)
        \/ GenFinish(t, MinLatencyMs)
        \/ /\ AllReturned
           /\ \E key_id \in DrawableKeys : GetKeyCall(t, key_id)
        \/ /\ AllReturned
           /\ \E key_id \in DrawableKeys, operation \in DrawnOperations :
                 CryptoCall(t, key_id, operation)
        \/ LookupStep(t)
        \/ LookupWake(t)
        \/ CryptoStart(t)
        \/ CryptoWake(t)
        \/ CryptoFinish(t, MinLatencyMs)

OpsSpec == OpsInit /\ [][OpsNext]_vars

\* --------------- HsmManager::get_aggregated_metrics and health_check
\* faulty variant: reading a provider's metrics counts as an operation on it
get_metrics_counting(m) ==
    LET n == [m EXCEPT !.total_operations = m.total_operations + 1]
    IN [metrics |-> n, returned |-> n]

\* AwsCloudHsmProvider::get_metrics: a clone taken under the read lock.
\* Result: the provider's metrics afterwards, the value returned
get_metrics(m) == [metrics |-> m, returned |-> m]

\* HsmManager::get_aggregated_metrics: one entry per registered provider
\* whose get_metrics returned Ok
GetAggregatedMetrics ==
    /\ Len(observed) < MaxObserved
    /\ pmetrics' = [p \in providers |-> get_metrics(pmetrics[p]).metrics]
    /\ observed' = Append(observed,
                          [call |-> "get_aggregated_metrics",
                           result |-> [p \in providers |->
                                          get_metrics(pmetrics[p]).returned],
                           at |-> task])
    /\ UNCHANGED <<config, providers, ppool, mmetrics, audit_trail, task>>
    /\ UNCHANGED <<iter_order, etl, vcache, tls, tbatch>>
    /\ UNCHANGED poolVars

\* AwsCloudHsmProvider::health_check: check_cluster_health always returns
\* Ok(()), so the provider answers Ok with status Healthy
AwsHealthOutcomes == {"Healthy"}

\* health_check of the other backends, by the provider interface:
\* Result<HsmHealthStatus>, a status or an error
OtherHealthOutcomes == {"Healthy", "Err"}

ProviderHealthOutcomes(p) ==
    IF p = "AwsCloudHsm" THEN AwsHealthOutcomes ELSE OtherHealthOutcomes

\* the elements of a sequence that pass a test, in order
RECURSIVE Succeeded(_, _)
Succeeded(order, outcomes) ==
    IF order = <<>> THEN <<>>
    ELSE IF outcomes[Head(order)] = "Err"
    THEN Succeeded(Tail(order), outcomes)
    ELSE <<[provider |-> Head(order), status |-> outcomes[Head(order)]]>>
         \o Succeeded(Tail(order), outcomes)

\* faulty variant: the first failing provider fails the whole call
HsmManager_health_check_propagating(order, outcomes) ==
    IF \E i \in 1..Len(order) : outcomes[order[i]] = "Err"
    THEN [res |-> "Err", statuses |-> <<>>]
    ELSE [res |-> "Ok", statuses |-> Succeeded(order, outcomes)]

\* HsmManager::health_check: Ok statuses are pushed, an Err is logged and
\* the loop goes on; the call itself returns Ok
HsmManager_health_check(order, outcomes) ==
    [res |-> "Ok", statuses |-> Succeeded(order, outcomes)]

HealthCheck ==
    /\ Len(observed) < MaxObserved
    /\ \E outcomes \in [providers -> AwsHealthOutcomes \cup OtherHealthOutcomes] :
        /\ \A p \in providers : outcomes[p] \in ProviderHealthOutcomes(p)
        /\ LET r == HsmManager_health_check(iter_order, outcomes) IN
            observed' = Append(observed,
                               [call |-> "health_check", res |-> r.res,
                                statuses |-> r.statuses, outcomes |-> outcomes,
                                at |-> task])
    /\ UNCHANGED mgrVars
    /\ UNCHANGED <<iter_order, etl, vcache, tls, tbatch>>
    /\ UNCHANGED poolVars

\* the algorithms drawn for the generate_pqc_key calls between the reads:
\* one that succeeds and one that fails
ObsAlgorithms == {"Kyber1024", "HybridRsaKyber"}

ObsInit ==
    /\ \E enabled \in SUBSET RegistrableProviders,
          pool_size \in 1..MaxProviderPool :
            config = [enabled |-> enabled, timeout_seconds |-> DefaultTimeoutSeconds,
                      pool_size |-> pool_size]
    /\ providers = HsmManager_new(config)
    /\ ppool = [p \in providers |-> NewPool(config.pool_size)]
    /\ pmetrics = [p \in providers |-> NewMetrics]
    /\ mmetrics = <<>>
    /\ audit_trail = <<>>
    /\ task = [t \in Tasks |-> IdleTask]
    /\ iter_order \in IterationOrders(providers)
    /\ observed = <<>>
    /\ EtlIdle
    /\ CacheIdle
    /\ AddsIdle
    /\ PoolIdle

\* generate_pqc_key calls made one after another, with metrics reads at any
\* point in between
ObsNext ==
    \/ \E t \in Tasks :
        \/ /\ AllReturned
           /\ \E algorithm \in ObsAlgorithms : GenCall(t, algorithm, KeyOrder[1], None)
        \/ GenWake(t)
        \/ GenTimeout(t)
        \/ GenFinish(t, MinLatencyMs)
    \/ GetAggregatedMetrics

ObsSpec == ObsInit /\ [][ObsNext]_vars

\* health checks and metrics reads on a Manager nothing else is using
HealthNext == HealthCheck \/ GetAggregatedMetrics

HealthSpec == ObsInit /\ [][HealthNext]_vars

\* ------------------------------------------------------------ ETLPipeline
\* Transaction::validate rule 1: the account starts with "PL" and is 28
\* characters long
WellFormedAccounts == {"PL61109010140000071219812874", "PL27114020040000300201355387"}
ValidCurrencies == {"PLN", "EUR", "USD", "GBP", "CHF"}

\* the transactions drawn as input: one that passes Transaction::validate
\* and the kind test_large_transaction_processing builds (ACC_SRC_i accounts)
DrawnTransactions ==
    {[source_account |-> "PL61109010140000071219812874",
      target_account |-> "PL27114020040000300201355387",
      amount |-> 100, currency |-> "PLN"],
     [source_account |-> "ACC_SRC_0", target_account |-> "ACC_DST_0",
      amount |-> 1000, currency |-> "USD"]}

\* Transaction::validate
validate(txn) ==
    /\ txn.source_account \in WellFormedAccounts
    /\ txn.target_account \in WellFormedAccounts
    /\ txn.amount > 0
    /\ txn.currency \in ValidCurrencies

\* faulty variant: the batch is full only once it is over its size
is_full_over(batch, batch_size) == Len(batch) > batch_size

\* TransactionBatch::is_full
is_full(batch, batch_size) == Len(batch) >= batch_size

\* BatchMetrics::default (the counters)
NewBatchMetrics ==
    [total_transactions |-> 0, processed_transactions |-> 0,
     failed_transactions |-> 0, total_batches |-> 0]

\* ETLPipeline::new
ETLPipeline_new(batch_size) ==
    [pc |-> "idle", batch_size |-> batch_size, current_batch |-> <<>>,
     processed_count |-> 0, failed_count |-> 0,
     \* process_transactions: its argument, the loop position, the bounded
     \* channel (capacity batch_size), its metrics
     input |-> <<>>, i |-> 0, channel |-> <<>>, metrics |-> NewBatchMetrics,
     \* process_batch: batch_size, processed, failed, the transaction being
     \* sent, and where process_transactions goes on afterwards
     size |-> 0, processed |-> 0, failed |-> 0, sending |-> <<>>, after |-> "feed"]

\* all sequences over s of length at most n
RECURSIVE SeqsUpTo(_, _)
SeqsUpTo(s, n) ==
    IF n = 0 THEN {<<>>}
    ELSE LET shorter == SeqsUpTo(s, n - 1) IN
         shorter \cup {Append(q, x) : q \in {r \in shorter : Len(r) = n - 1}, x \in s}

\* everything but the pipeline
notEtl == <<pool, lent, hist, config, providers, ppool, pmetrics, mmetrics,
            audit_trail, task, iter_order, observed, vcache, tls, tbatch>>

\* process_transactions is called (lines 31-40)
ProcessTransactions(transactions) ==
    /\ etl.pc = "idle"
    /\ etl' = [etl EXCEPT !.pc = "feed", !.input = transactions, !.i = 1,
                          !.channel = <<>>, !.metrics = NewBatchMetrics]
    /\ UNCHANGED notEtl

\* process_batch is entered (lines 84-104)
EnterBatch(e, after) ==
    [e EXCEPT !.pc = "batch", !.size = Len(e.current_batch),
              !.processed = 0, !.failed = 0, !.after = after]

\* One turn of `for transaction in transactions` (lines 42-52), or the end
\* of the loop (lines 54-58)
EtlFeed ==
    /\ etl.pc = "feed"
    /\ IF etl.i > Len(etl.input)
       THEN etl' = IF etl.current_batch # <<>>
                   THEN EnterBatch(etl, "drain")
                   ELSE [etl EXCEPT !.pc = "drain"]
       ELSE IF is_full(etl.current_batch, etl.batch_size)
       THEN \* add_transaction fails: "Batch is full"
            etl' = [etl EXCEPT !.failed_count = @ + 1, !.i = @ + 1]
       ELSE LET added == [etl EXCEPT !.current_batch = Append(@, etl.input[etl.i]),
                                     !.i = @ + 1]
            IN etl' = IF is_full(added.current_batch, added.batch_size)
                      THEN EnterBatch(added, "feed")
                      ELSE added
    /\ UNCHANGED notEtl

\* process_batch takes the next transaction of the batch and validates it
\* (lines 106-117, 133-139; the chunks of 10 group these same steps).  A
\* valid one is counted and then sent
EtlTake ==
    /\ etl.pc = "batch"
    /\ etl.current_batch # <<>>
    /\ LET txn == Head(etl.current_batch) IN
        etl' = IF validate(txn)
               THEN [etl EXCEPT !.current_batch = Tail(@), !.processed = @ + 1,
                                !.sending = <<txn>>, !.pc = "send"]
               ELSE [etl EXCEPT !.current_batch = Tail(@), !.failed = @ + 1]
    /\ UNCHANGED notEtl

\* tx.send(txn).await: completes when the channel, created with capacity
\* batch_size, has room; nothing receives before process_transactions has
\* left its loop
EtlSend ==
    /\ etl.pc = "send"
    /\ Len(etl.channel) < etl.batch_size
    /\ etl' = [etl EXCEPT !.channel = Append(@, etl.sending[1]),
                          !.sending = <<>>, !.pc = "batch"]
    /\ UNCHANGED notEtl

\* process_batch adds its counts to the metrics and returns (lines 158-175)
EtlBatchEnd ==
    /\ etl.pc = "batch"
    /\ etl.current_batch = <<>>
    /\ etl' = [etl EXCEPT
                 !.metrics = [@ EXCEPT
                     !.total_batches = @ + 1,
                     !.total_transactions = @ + etl.size,
                     !.processed_transactions = @ + etl.processed,
                     !.failed_transactions = @ + etl.failed],
                 !.pc = etl.after]
    /\ UNCHANGED notEtl

\* `while let Some(mut transaction) = rx.recv().await` (lines 60-68), all
\* senders dropped; then the metrics are returned (lines 70-80)
EtlRecv ==
    /\ etl.pc = "drain"
    /\ IF etl.channel # <<>>
       THEN LET txn == Head(etl.channel) IN
            etl' = IF validate(txn)
                   THEN [etl EXCEPT !.channel = Tail(@),
                                    !.processed_count = @ + 1,
                                    !.metrics.processed_transactions = @ + 1]
                   ELSE [etl EXCEPT !.channel = Tail(@),
                                    !.failed_count = @ + 1,
                                    !.metrics.failed_transactions = @ + 1]
       ELSE etl' = [etl EXCEPT !.pc = "returned"]
    /\ UNCHANGED notEtl

EtlInit ==
    /\ \E batch_size \in 1..MaxBatchSize : etl = ETLPipeline_new(batch_size)
    /\ iter_order = <<>>
    /\ observed = <<>>
    /\ CacheIdle
    /\ AddsIdle
    /\ MgrIdle
    /\ PoolIdle

EtlNext ==
    \/ \E transactions \in SeqsUpTo(DrawnTransactions, MaxInput) :
           ProcessTransactions(transactions)
    \/ EtlFeed
    \/ EtlTake
    \/ EtlSend
    \/ EtlBatchEnd
    \/ EtlRecv

\* process_transactions runs in one task that nothing else holds up: it
\* takes its next step whenever it has one
EtlSpec == EtlInit /\ [][EtlNext]_vars /\ WF_vars(EtlNext)

\* -------------------------------------------------------- ValidationCache
\* ValidationCache::new: `Self::new_with_ttl(max_size, 3600)`
DefaultTtlSeconds == 3600

\* validate_account_format: at least 8 characters, all alphanumeric
AlphanumericAccounts == {"PL12345678", "PL87654321"}
\* validate_currency
CacheCurrencies == {"USD", "EUR", "PLN", "GBP", "CHF", "JPY"}

\* the transactions the threads validate: the one of
\* test_validation_cache_basic and one with short account names
CacheTransactions ==
    {[source |-> "PL12345678", target |-> "PL87654321", amount |-> 100,
      currency |-> "PLN"],
     [source |-> "ACC1", target |-> "ACC2", amount |-> 100, currency |-> "USD"]}

\* create_cache_key: the four fields, joined
create_cache_key(tx) == <<tx.source, tx.target, tx.amount, tx.currency>>

\* perform_validation(transaction).is_valid
perform_validation(tx) ==
    /\ tx.source \in AlphanumericAccounts
    /\ tx.target \in AlphanumericAccounts
    /\ tx.amount > 0
    /\ tx.currency \in CacheCurrencies

\* `a - b` on u64.  With b > a the subtraction overflows: a build with
\* overflow checks (the dev and test profiles) panics, a build without
\* them wraps to 2^64 - (b - a), which is above every ttl used here
sub_u64(a, b, overflow_checks) ==
    IF a >= b THEN [kind |-> "value", v |-> a - b]
    ELSE IF overflow_checks THEN [kind |-> "panic", v |-> 0]
    ELSE [kind |-> "wrapped", v |-> 0]

\* `difference > self.ttl_seconds`
Exceeds(d, ttl_seconds) == d.kind = "wrapped" \/ (d.kind = "value" /\ d.v > ttl_seconds)

NoEntries == [k \in {} |-> 0]

IdleThread ==
    [pc |-> "idle", tx |-> <<>>, key |-> <<>>, current_time |-> 0,
     is_valid |-> FALSE, evicted |-> {}]

\* ValidationCache::new_with_ttl, the clock it reads, the build it runs in
\* and the threads sharing it.  cache_readers / cache_writer: the holders
\* of the RwLock around `cache`; stats_readers: the holders of a read guard
\* of the RwLock around `stats` (its write guard is only held within
\* single steps)
ValidationCache_new_with_ttl(max_size, ttl_seconds) ==
    [pc |-> "built", max_size |-> max_size, ttl_seconds |-> ttl_seconds,
     cache |-> NoEntries, cache_readers |-> {}, cache_writer |-> 0,
     stats_readers |-> {},
     stats |-> [total_requests |-> 0, cache_hits |-> 0, cache_misses |-> 0,
                current_size |-> 0, evictions |-> 0],
     clock |-> 0, overflow_checks |-> FALSE,
     thr |-> [th \in Threads |-> IdleThread]]

\* everything but the cache
notCache == <<pool, lent, hist, config, providers, ppool, pmetrics, mmetrics,
              audit_trail, task, iter_order, observed, etl, tls, tbatch>>

\* `self.stats.write()` is granted: nobody holds a read guard of the lock
\* (a write guard is released within the step that took it)
StatsWritable == vcache.stats_readers = {}

\* validate_transaction lines 82-89: key, current_time, total_requests += 1
VtBegin(th, tx) ==
    /\ vcache.thr[th].pc = "idle"
    /\ \A u \in Threads : u < th => vcache.thr[u].pc # "idle"
    /\ StatsWritable
    /\ vcache' = [vcache EXCEPT
                    !.stats.total_requests = @ + 1,
                    !.thr[th] = [@ EXCEPT !.pc = "lookup", !.tx = tx,
                                          !.key = create_cache_key(tx),
                                          !.current_time = vcache.clock]]
    /\ UNCHANGED notCache

\* lines 92-95 and 117-118: cache.read(), the entry and its age.  A fresh
\* entry keeps the read guard for the hit path; otherwise the guard is
\* dropped (also by the unwinding of a panic)
VtLookup(th) ==
    /\ vcache.thr[th].pc = "lookup"
    /\ vcache.cache_writer = 0
    /\ LET me == vcache.thr[th] IN
       IF me.key \in DOMAIN vcache.cache
       THEN LET entry == vcache.cache[me.key]
                age == sub_u64(me.current_time, entry.timestamp,
                               vcache.overflow_checks)
            IN
            IF age.kind = "panic"
            THEN vcache' = [vcache EXCEPT !.thr[th].pc = "panicked"]
            ELSE IF ~Exceeds(age, vcache.ttl_seconds)
            THEN vcache' = [vcache EXCEPT !.cache_readers = @ \cup {th},
                                          !.thr[th].pc = "hit_stats",
                                          !.thr[th].is_valid = entry.value]
            ELSE vcache' = [vcache EXCEPT !.thr[th].pc = "miss_stats"]
       ELSE vcache' = [vcache EXCEPT !.thr[th].pc = "miss_stats"]
    /\ UNCHANGED notCache

\* lines 97-104: cache_hits += 1 under stats.write(), then drop(cache)
VtHitStats(th) ==
    /\ vcache.thr[th].pc = "hit_stats"
    /\ StatsWritable
    /\ vcache' = [vcache EXCEPT !.stats.cache_hits = @ + 1,
                                !.cache_readers = @ \ {th},
                                !.thr[th].pc = "hit_update"]
    /\ UNCHANGED notCache

\* lines 105-115: cache.write(), access_count += 1 if the entry is still
\* there, the cached value is returned
VtHitUpdate(th) ==
    /\ vcache.thr[th].pc = "hit_update"
    /\ vcache.cache_writer = 0 /\ vcache.cache_readers = {}
    /\ LET key == vcache.thr[th].key IN
       vcache' = [vcache EXCEPT
                    !.cache = [k \in DOMAIN @ |->
                                  IF k = key
                                  THEN [@[k] EXCEPT !.access_count = @ + 1]
                                  ELSE @[k]],
                    !.thr[th].pc = "done"]
    /\ UNCHANGED notCache

\* lines 121-131: cache_misses += 1 under stats.write(), perform_validation
VtMissStats(th) ==
    /\ vcache.thr[th].pc = "miss_stats"
    /\ StatsWritable
    /\ vcache' = [vcache EXCEPT
                    !.stats.cache_misses = @ + 1,
                    !.thr[th].pc = "insert_lock",
                    !.thr[th].is_valid = perform_validation(vcache.thr[th].tx)]
    /\ UNCHANGED notCache

\* insert_to_cache line 141: cache.write()
VtInsertLock(th) ==
    /\ vcache.thr[th].pc = "insert_lock"
    /\ vcache.cache_writer = 0 /\ vcache.cache_readers = {}
    /\ vcache' = [vcache EXCEPT !.cache_writer = th,
                                !.thr[th].pc = "insert_body"]
    /\ UNCHANGED notCache

\* cleanup_expired_entries: the keys whose age exceeds the ttl
ExpiredKeys(cache, current_time, ttl_seconds, overflow_checks) ==
    {k \in DOMAIN cache :
        Exceeds(sub_u64(current_time, cache[k].timestamp, overflow_checks),
                ttl_seconds)}

\* evict_lru_entry: an entry with the lowest access_count
EvictionCandidates(cache) ==
    {k \in DOMAIN cache :
        \A j \in DOMAIN cache : cache[k].access_count <= cache[j].access_count}

Without(cache, keys) == [k \in DOMAIN cache \ keys |-> cache[k]]

\* faulty variant: the cache counts as full only once it is over its limit
cache_is_full_strict(len, max_size) == len > max_size

\* insert_to_cache line 147: `cache.len() >= self.max_size`
cache_is_full(len, max_size) == len >= max_size

\* insert_to_cache lines 143-161 under the write guard: cleanup of expired
\* entries (the age of every entry is computed), eviction if the cache is
\* full, the insert, current_size, each of them with its own
\* stats.write(); validate_transaction then returns.
\* evicted: the keys evict_lru_entry removed for this insertion
VtInsertBody(th) ==
    /\ vcache.thr[th].pc = "insert_body"
    /\ StatsWritable
    /\ LET me == vcache.thr[th]
           ages_panic ==
               \E k \in DOMAIN vcache.cache :
                   sub_u64(me.current_time, vcache.cache[k].timestamp,
                           vcache.overflow_checks).kind = "panic"
           kept == Without(vcache.cache,
                           ExpiredKeys(vcache.cache, me.current_time,
                                       vcache.ttl_seconds, vcache.overflow_checks))
           full == cache_is_full(Cardinality(DOMAIN kept), vcache.max_size)
           entry == [value |-> me.is_valid, timestamp |-> me.current_time,
                     access_count |-> 1]
       IN
       IF ages_panic
       THEN vcache' = [vcache EXCEPT !.cache_writer = 0,
                                     !.thr[th].pc = "panicked"]
       ELSE \E victims \in IF full /\ DOMAIN kept # {}
                            THEN {{k} : k \in EvictionCandidates(kept)}
                            ELSE {{}} :
            LET left == Without(kept, victims)
                after == [k \in DOMAIN left \cup {me.key} |->
                             IF k = me.key THEN entry ELSE left[k]]
            IN
            vcache' = [vcache EXCEPT
                         !.cache = after,
                         !.stats.evictions = @ + Cardinality(victims),
                         !.stats.current_size = Cardinality(DOMAIN after),
                         !.cache_writer = 0,
                         !.thr[th].pc = "done",
                         !.thr[th].evicted = victims]
    /\ UNCHANGED notCache

\* SystemTime::now() moves on by a second
Tick ==
    /\ vcache.pc = "built"
    /\ vcache.clock < MaxClock
    /\ vcache' = [vcache EXCEPT !.clock = @ + 1]
    /\ UNCHANGED notCache

CacheInit ==
    /\ \E max_size \in 1..MaxCacheSize, ttl_seconds \in {0, DefaultTtlSeconds},
          overflow_checks \in BOOLEAN :
            vcache = [ValidationCache_new_with_ttl(max_size, ttl_seconds)
                         EXCEPT !.overflow_checks = overflow_checks]
    /\ iter_order = <<>>
    /\ observed = <<>>
    /\ EtlIdle
    /\ AddsIdle
    /\ MgrIdle
    /\ PoolIdle

CacheNext ==
    \/ \E th \in Threads :
        \/ \E tx \in CacheTransactions : VtBegin(th, tx)
        \/ VtLookup(th)
        \/ VtHitStats(th)
        \/ VtHitUpdate(th)
        \/ VtMissStats(th)
        \/ VtInsertLock(th)
        \/ VtInsertBody(th)
    \/ Tick

CacheSpec == CacheInit /\ [][CacheNext]_vars

\* ------------------------------------------------------- pool claims C1-C3
OnlyGets == \A i \in 1..Len(hist) : hist[i].op = "get"

\* C1: with max_connections = N and no return_connection in between, the
\* first N get_connection calls succeed and every later one, the (N+1)-th
\* first, completes with ResourceExhausted (it is answered, not parked).
C1_FirstNSucceedThenExhausted ==
    OnlyGets =>
        \A i \in 1..Len(hist) :
            hist[i].res = IF i <= pool.max_connections
                          THEN "Ok" ELSE "ResourceExhausted"

C1_Witness ==
    /\ OnlyGets
    /\ pool.max_connections >= 2
    /\ Len(hist) = pool.max_connections + 1
    /\ hist[Len(hist)].res = "ResourceExhausted"
    /\ \E i, j \in 1..Len(lent) : lent[i].owner # lent[j].owner

\* C2: the get_connection that directly follows a completed
\* return_connection succeeds, also when the pool was at max_connections
\* with nothing idle before the return.
C2_GetAfterReturnSucceeds ==
    \A i \in 2..Len(hist) :
        (hist[i-1].op = "return" /\ hist[i].op = "get") => hist[i].res = "Ok"

C2_Witness ==
    /\ pool.max_connections = 2
    /\ Len(hist) >= 5
    /\ \E i \in 4..Len(hist) :
        /\ hist[i-2].op = "get" /\ hist[i-2].res = "ResourceExhausted"
        /\ hist[i-1].op = "return" /\ hist[i-1].full
        /\ hist[i].op = "get" /\ hist[i].res = "Ok"

\* C3: no connection is lent twice at once: connections checked out at the
\* same time have pairwise different ids, are flagged busy, and none of them
\* is on the pool's idle list.
C3_NeverLentTwice ==
    /\ \A i, j \in 1..Len(lent) : i # j => lent[i].conn.id # lent[j].conn.id
    /\ \A i \in 1..Len(lent) :
        /\ lent[i].conn.is_busy
        /\ \A k \in 1..Len(pool.connections) :
            pool.connections[k].id # lent[i].conn.id

C3_Witness ==
    /\ Len(lent) >= 2
    /\ lent[1].owner # lent[2].owner
    /\ \E i \in 1..Len(hist) : hist[i].op = "return"
    /\ \E i \in 2..Len(hist) : hist[i].op = "get" /\ hist[i].id = hist[i-1].id

\* --------------------------------------------------- Manager claims C4-C10
Done(t) == task[t].pc = "done"
Invoked(t) == task[t].invoked # <<>>

\* C4: every generate_pqc_key call, whatever its outcome (an unavailable
\* provider included), appends exactly one audit record, and the record
\* carries the call's key_id and algorithm.
C4_ExactlyOneAuditRecord ==
    \A t \in Tasks :
        Done(t) =>
            /\ Len(task[t].appended) = 1
            /\ task[t].appended[1].key_id = task[t].key_id
            /\ task[t].appended[1].algorithm = task[t].algorithm

\* C5: a generate_pqc_key call for an algorithm no enabled backend supports
\* fails with UnsupportedAlgorithm and writes exactly one audit record with
\* outcome failed.  Stated for calls that reached a registered provider,
\* started after every other call had returned, and whose audit write went
\* through.
C5_UnsupportedAlgorithmFails ==
    \A t \in Tasks :
        (/\ Done(t)
         /\ ~Supported(task[t].algorithm)
         /\ Invoked(t)
         /\ task[t].sequential
         /\ task[t].result # "AuditError")
        =>
            /\ task[t].result = "UnsupportedAlgorithm"
            /\ Len(task[t].appended) = 1
            /\ task[t].appended[1].outcome = "failed"

FailedAddedTo(p) ==
    Cardinality({t \in Tasks : /\ task[t].provider_type = p
                               /\ Invoked(t)
                               /\ task[t].failed_added = 1})

C7_SelectedIsEnabled ==
    \A t \in Tasks :
        (task[t].pc = "resolved" /\ task[t].preferred = None) =>
            task[t].provider_type \in config.enabled

\* C7 amended: for every algorithm and every non-empty enabled set,
\* select_optimal_provider returns a backend of the enabled set; for the
\* empty set it still returns one of the three backends, which is not enabled.
C7_SelectedIsEnabledIfAny ==
    \A t \in Tasks :
        (task[t].pc = "resolved" /\ task[t].preferred = None) =>
            /\ task[t].provider_type \in RegistrableProviders
            /\ config.enabled # {} => task[t].provider_type \in config.enabled

C7_Witness ==
    \E t \in Tasks :
        /\ task[t].pc = "resolved" /\ task[t].preferred = None
        /\ task[t].algorithm = "Dilithium3"
        /\ config.enabled = {"AzureKeyVault"}
        /\ task[t].provider_type = "AzureKeyVault"

\* the backends an algorithm's arm of select_optimal_provider ranks
RankedBackends(algorithm) == RegistrableProviders

\* C8: without a preferred provider and with no backend ranked for the
\* algorithm enabled, generate_pqc_key fails with ProviderUnavailable and no
\* provider's generate_pqc_key is invoked.
C8_NoRankedBackendIsUnavailable ==
    \A t \in Tasks :
        (/\ Done(t)
         /\ task[t].preferred = None
         /\ RankedBackends(task[t].algorithm) \cap config.enabled = {})
        =>
            /\ task[t].result = "ProviderUnavailable"
            /\ task[t].invoked = <<>>
            /\ \A p \in providers : pmetrics[p] = NewMetrics

C8_Witness ==
    \E t \in Tasks :
        /\ Done(t)
        /\ task[t].preferred = None
        /\ config.enabled = {}
        /\ task[t].result = "ProviderUnavailable"

\* C9: a preferred_provider is the provider used, whatever the ranking says;
\* when it is not registered the call fails with ProviderUnavailable and no
\* other registered backend is invoked.
C9_PreferredProviderWins ==
    \A t \in Tasks :
        (task[t].pc # "idle" /\ task[t].preferred # None) =>
            /\ task[t].provider_type = task[t].preferred
            /\ task[t].preferred \in providers => task[t].invoked = <<task[t].preferred>>
            /\ task[t].preferred \notin providers =>
                /\ Done(t)
                /\ task[t].result = "ProviderUnavailable"
                /\ task[t].invoked = <<>>

C9_Witness ==
    \E t, u \in Tasks :
        /\ Done(t) /\ task[t].preferred = "AzureKeyVault"
        /\ "AzureKeyVault" \notin providers /\ providers # {}
        /\ task[t].result = "ProviderUnavailable"
        /\ Done(u) /\ task[u].preferred = None /\ task[u].result = "Ok"

\* C10: for Kyber1024 without a preferred provider the resolved provider is
\* the cloud HSM if enabled, else PKCS#11 if enabled, else the managed vault;
\* enabled = {cloud HSM} resolves to the cloud HSM.
C10_KyberRanking ==
    \A t \in Tasks :
        (/\ task[t].pc = "resolved"
         /\ task[t].preferred = None
         /\ task[t].algorithm = "Kyber1024")
        =>
            /\ "AwsCloudHsm" \in config.enabled => task[t].provider_type = "AwsCloudHsm"
            /\ ("AwsCloudHsm" \notin config.enabled /\ "Pkcs11Generic" \in config.enabled)
               => task[t].provider_type = "Pkcs11Generic"
            /\ ("AwsCloudHsm" \notin config.enabled /\ "Pkcs11Generic" \notin config.enabled)
               => task[t].provider_type = "AzureKeyVault"

C10_Witness ==
    \E t, u \in Tasks :
        /\ task[t].pc = "resolved" /\ task[t].preferred = None
        /\ task[t].algorithm = "Kyber1024"
        /\ config.enabled = {"AwsCloudHsm"}
        /\ task[t].provider_type = "AwsCloudHsm"
        /\ task[u].pc = "resolved" /\ task[u].algorithm = "Dilithium3"

\* ------------------------------------------------- selection claim C11
SignatureAlgorithms == {"Dilithium3", "SphincsPlusSha256128s"}

\* C11 as stated: for every signature algorithm (Dilithium3 and SPHINCS+)
\* without a preferred provider, the resolved provider is PKCS#11 whenever
\* PKCS#11 is enabled.
C11_SignaturePrefersPkcs11 ==
    \A t \in Tasks :
        (/\ task[t].pc = "resolved"
         /\ task[t].preferred = None
         /\ task[t].algorithm \in SignatureAlgorithms
         /\ "Pkcs11Generic" \in config.enabled)
        => task[t].provider_type = "Pkcs11Generic"

\* C11 amended: without a preferred provider Dilithium3 resolves to PKCS#11
\* whenever PKCS#11 is enabled (then the cloud HSM, then the managed vault);
\* SPHINCS+ resolves to the managed vault whenever that is enabled and to
\* PKCS#11 only when the managed vault is not enabled (then the cloud HSM).
\* With enabled = {managed vault, PKCS#11} Dilithium3 goes to PKCS#11 and
\* SPHINCS+ to the managed vault.
C11_SignatureRanking ==
    \A t \in Tasks :
        (task[t].pc = "resolved" /\ task[t].preferred = None) =>
            /\ task[t].algorithm = "Dilithium3" =>
                task[t].provider_type =
                    IF "Pkcs11Generic" \in config.enabled THEN "Pkcs11Generic"
                    ELSE IF "AwsCloudHsm" \in config.enabled THEN "AwsCloudHsm"
                    ELSE "AzureKeyVault"
            /\ task[t].algorithm = "SphincsPlusSha256128s" =>
                task[t].provider_type =
                    IF "AzureKeyVault" \in config.enabled THEN "AzureKeyVault"
                    ELSE IF "Pkcs11Generic" \in config.enabled THEN "Pkcs11Generic"
                    ELSE "AwsCloudHsm"

C11_Witness ==
    \E t, u \in Tasks :
        /\ config.enabled = {"AzureKeyVault", "Pkcs11Generic"}
        /\ task[t].pc = "resolved" /\ task[t].preferred = None
        /\ task[t].algorithm = "Dilithium3"
        /\ task[t].provider_type = "Pkcs11Generic"
        /\ task[u].pc = "resolved" /\ task[u].preferred = None
        /\ task[u].algorithm = "SphincsPlusSha256128s"
        /\ task[u].provider_type = "AzureKeyVault"

\* ------------------------------------ Manager claims C12-C15 and C18
IsCall(t, kind) == Done(t) /\ task[t].kind = kind

\* C12: get_key(k) for a key_id no generate_pqc_key call was ever made for
\* fails with KeyNotFound, whatever providers are registered.
C12_UnknownKeyIsNotFound ==
    \A t \in Tasks :
        (IsCall(t, "get_key") /\ task[t].key_id \notin Generated) =>
            task[t].result = "KeyNotFound"

\* get_key inside crypto_operation found a provider for the key
KeyResolved(t) == task[t].provider_type # None

\* C13 as stated: crypto_operation appends exactly one audit record when
\* op.context.audit_required is set and none when it is not.
C13_AuditIffRequired ==
    \A t \in Tasks :
        IsCall(t, "crypto_operation") =>
            Len(task[t].appended) =
                IF task[t].operation.context.audit_required THEN 1 ELSE 0

\* C13 amended: crypto_operation appends no audit record when
\* audit_required is not set.  When it is set it appends at most one, and
\* exactly one if the key resolved to a provider and the audit write went
\* through (whatever the provider's outcome); a call whose key does not
\* resolve returns before the audit step and appends none.  The record
\* carries the operation's key_id and context, and nothing else is added to
\* the trail.
C13_AuditOnlyIfRequired ==
    /\ \A t \in Tasks :
        IsCall(t, "crypto_operation") =>
            /\ ~task[t].operation.context.audit_required => task[t].appended = <<>>
            /\ task[t].operation.context.audit_required =>
                /\ Len(task[t].appended) <= 1
                /\ Len(task[t].appended) = 1 <=>
                       (KeyResolved(t) /\ ~task[t].audit_failed)
                /\ ~KeyResolved(t) => task[t].result = "KeyNotFound"
            /\ \A i \in 1..Len(task[t].appended) :
                /\ task[t].appended[i].key_id = task[t].key_id
                /\ task[t].appended[i].context = task[t].operation.context
                /\ task[t].appended[i].outcome =
                       IF task[t].presult = "Ok" THEN "success" ELSE "failed"
    /\ Len(audit_trail) = Cardinality({t \in Tasks : task[t].appended # <<>>})

C13_Witness ==
    \E t, u \in Tasks :
        /\ IsCall(t, "crypto_operation")
        /\ task[t].operation.context.audit_required
        /\ task[t].result = "Ok"
        /\ Len(task[t].appended) = 1
        /\ IsCall(u, "crypto_operation")
        /\ ~task[u].operation.context.audit_required
        /\ task[u].result = "Ok"
        /\ task[u].appended = <<>>
        /\ Len(audit_trail) = 1

\* C14: when the audit write fails, generate_pqc_key still returns the
\* provider operation's own result (its success or its own error): every
\* call that reached its provider returns what the provider returned.
C14_AuditFailureKeepsResult ==
    \A t \in Tasks :
        (Done(t) /\ Invoked(t)) => task[t].result = task[t].presult

\* C15 as stated: every generate_pqc_key call invokes exactly one provider
\* exactly once.
C15_ExactlyOneInvocation ==
    \A t \in Tasks : Done(t) => Len(task[t].invoked) = 1

\* the calls that invoked provider p
InvokedOn(p) == {t \in Tasks : task[t].invoked = <<p>>}

\* C15 amended: every generate_pqc_key call invokes at most one provider at
\* most once: the resolved provider exactly once when it is registered, no
\* provider at all when it is not (ProviderUnavailable).  After a timeout, a
\* pool-exhausted error or any other failure nothing is retried and no
\* other provider is tried: the call shows up exactly once in the counters
\* of its provider and in no other provider's.
C15_AtMostOneInvocation ==
    /\ \A t \in Tasks :
        task[t].pc # "idle" =>
            /\ task[t].provider_type \in providers =>
                   task[t].invoked = <<task[t].provider_type>>
            /\ task[t].provider_type \notin providers =>
                   /\ task[t].invoked = <<>>
                   /\ task[t].result = "ProviderUnavailable"
    /\ \A p \in providers :
        pmetrics[p].successful_operations + pmetrics[p].failed_operations =
            Cardinality({t \in InvokedOn(p) : task[t].presult # None})

C15_Witness ==
    \E t, u \in Tasks, p \in providers :
        /\ Done(t) /\ task[t].invoked = <<p>>
        /\ task[t].presult = "OperationTimeout"
        /\ Done(u) /\ task[u].invoked = <<p>>
        /\ task[u].presult = "ResourceExhausted"
        /\ pmetrics[p].failed_operations = 2
        /\ \E q \in providers \ {p} : pmetrics[q] = NewMetrics

\* C18: a Verify whose data does not match comes back as a completed
\* CryptoResult with success = false, not as an error.  Stated for calls
\* whose provider operation ran and whose audit write went through.
C18_MismatchIsUnsuccessfulResult ==
    \A t \in Tasks :
        (/\ IsCall(t, "crypto_operation")
         /\ task[t].operation.operation_type = "Verify"
         /\ ~task[t].operation.data_matches
         /\ task[t].presult = "Ok"
         /\ ~task[t].audit_failed)
        =>
            /\ task[t].result = "Ok"
            /\ task[t].cresult.success = FALSE

\* ------------------------------------------ read-only calls: C16, C17
IsMetricsRead(i) == observed[i].call = "get_aggregated_metrics"

\* the operation counts of one returned metrics map
Counts(result) ==
    [p \in DOMAIN result |->
        <<result[p].total_operations, result[p].successful_operations,
          result[p].failed_operations>>]

\* C16: get_aggregated_metrics changes no metrics (neither a provider's nor
\* the Manager's), and a call that directly follows another one, with no
\* step of any operation in between, returns the same operation counts for
\* every provider.
C16_MetricsReadIsStable ==
    [][(/\ Len(observed') = Len(observed) + 1
        /\ observed'[Len(observed')].call = "get_aggregated_metrics")
       =>
       (/\ pmetrics' = pmetrics
        /\ mmetrics' = mmetrics
        /\ (/\ Len(observed) > 0
            /\ IsMetricsRead(Len(observed))
            /\ observed[Len(observed)].at = task)
           => Counts(observed'[Len(observed')].result) =
              Counts(observed[Len(observed)].result))]_vars

C16_Witness ==
    /\ Len(observed) = 2
    /\ IsMetricsRead(1) /\ IsMetricsRead(2)
    /\ observed[1].at = observed[2].at
    /\ \E p \in providers :
        /\ observed[2].result[p].successful_operations = 1
        /\ observed[2].result[p].failed_operations = 1
        /\ observed[1].result[p] = observed[2].result[p]

\* C17: health_check never fails because a provider's health check failed:
\* it returns Ok with exactly the statuses of the providers whose health
\* check succeeded, one each, and nothing for the failing ones.
C17_HealthCheckSkipsFailures ==
    \A i \in 1..Len(observed) :
        observed[i].call = "health_check" =>
            LET h == observed[i]
                ok == {p \in providers : h.outcomes[p] # "Err"}
            IN
            /\ h.res = "Ok"
            /\ Len(h.statuses) = Cardinality(ok)
            /\ {h.statuses[k].provider : k \in 1..Len(h.statuses)} = ok
            /\ \A k \in 1..Len(h.statuses) :
                h.statuses[k].status = h.outcomes[h.statuses[k].provider]

C17_Witness ==
    \E i \in 1..Len(observed) :
        /\ observed[i].call = "health_check"
        /\ observed[i].res = "Ok"
        /\ Len(observed[i].statuses) = 2
        /\ \E p \in providers : observed[i].outcomes[p] = "Err"

\* ------------------------------------------------------- pipeline claim C19
\* C19: for a pipeline with batch_size >= 1, process_transactions(input)
\* returns metrics whose total_transactions is the number of transactions
\* of the input, for every input length and every mix of valid and invalid
\* transactions.
C19_ReturnsTotalOfInput ==
    <>(/\ etl.pc = "returned"
       /\ etl.metrics.total_transactions = Len(etl.input))

\* ---------------------------------------------------------- cache claim C20
\* C20: when validate_transaction is called from several threads on one
\* ValidationCache, every call completes (none ends in a panic), and once
\* all calls are over total_requests is the number of calls made and
\* equals cache_hits + cache_misses.
C20_ConcurrentCallsAreCounted ==
    /\ \A th \in Threads : vcache.thr[th].pc # "panicked"
    /\ (\A th \in Threads : vcache.thr[th].pc = "done") =>
        /\ vcache.stats.total_requests = Cardinality(Threads)
        /\ vcache.stats.total_requests =
               vcache.stats.cache_hits + vcache.stats.cache_misses

\* --------------------------------------------------- cache claims C21
\* the step in which thread th completes insert_to_cache
Inserts(th) ==
    /\ vcache.pc = "built" /\ vcache'.pc = "built"
    /\ vcache.thr[th].pc = "insert_body"
    /\ vcache'.thr[th].pc = "done"

\* the entries cleanup_expired_entries leaves for thread th's insertion
AfterCleanup(th) ==
    Without(vcache.cache,
            ExpiredKeys(vcache.cache, vcache.thr[th].current_time,
                        vcache.ttl_seconds, vcache.overflow_checks))

CacheWithinMaxSize ==
    vcache'.pc = "built" =>
        Cardinality(DOMAIN vcache'.cache) <= vcache'.max_size

\* C21: with max_size >= 1 the cache never holds more than max_size
\* entries, and an insertion into a full cache evicts exactly one entry
\* and adds exactly 1 to the evictions counter.
C21_FullCacheEvictsOne ==
    [][/\ CacheWithinMaxSize
       /\ \A th \in Threads :
            (Inserts(th) /\ Cardinality(DOMAIN vcache.cache) >= vcache.max_size)
            => /\ Cardinality(vcache'.thr[th].evicted) = 1
               /\ vcache'.stats.evictions = vcache.stats.evictions + 1]_vars

\* C21, amended: the cache never holds more than max_size entries, and an
\* insertion that finds the cache still full once its expired entries are
\* removed evicts exactly one of the remaining entries and adds exactly 1
\* to the evictions counter; an insertion that finds room after the
\* cleanup evicts nothing and leaves the counter alone.
C21_FullAfterCleanupEvictsOne ==
    [][/\ CacheWithinMaxSize
       /\ \A th \in Threads :
            Inserts(th) =>
              LET kept == AfterCleanup(th) IN
              IF Cardinality(DOMAIN kept) >= vcache.max_size
              THEN /\ Cardinality(vcache'.thr[th].evicted) = 1
                   /\ vcache'.thr[th].evicted \subseteq DOMAIN kept
                   /\ vcache'.stats.evictions = vcache.stats.evictions + 1
              ELSE /\ vcache'.thr[th].evicted = {}
                   /\ vcache'.stats.evictions = vcache.stats.evictions]_vars

\* an insertion has evicted an entry of a full cache, which is full again
C21_Witness ==
    /\ vcache.pc = "built"
    /\ \E th \in Threads :
        /\ vcache.thr[th].pc = "done"
        /\ Cardinality(vcache.thr[th].evicted) = 1
        /\ vcache.thr[th].evicted \cap DOMAIN vcache.cache = {}
    /\ vcache.stats.evictions = 1
    /\ Cardinality(DOMAIN vcache.cache) = vcache.max_size

\* -------------------------------------------------------------- TlsSession
\* enum TlsState
TlsState ==
    {"Initial", "HandshakeInProgress", "EstablishingKeys", "Connected", "Closed"}

\* TlsSession::new: `session_timeout: Duration::from_secs(3600)`
SessionTimeoutSecs == 3600

\* every reading of the time in tls.rs is the fixed instant
\* `Utc.ymd(2025, 5, 6).and_hms(19, 40, 11)`; seconds are counted from it
FixedNow == 0

\* pqcrypto_kyber::kyber1024: keypair() returns a matching pair,
\* encapsulate a secret and its ciphertext, and decapsulate recovers the
\* secret with the matching secret key and a rejection value with any other
keypair == [public_key |-> "pk", secret_key |-> "sk"]
encapsulate(public_key) == [shared_secret |-> "ss", ciphertext |-> "ct"]

\* faulty variant: decapsulation never recovers the secret
decapsulate_rejecting(ciphertext, secret_key) == "rejected"

decapsulate(ciphertext, secret_key) ==
    IF ciphertext = "ct" /\ secret_key = "sk" THEN "ss" ELSE "rejected"

\* secure_clear: every byte becomes 0
secure_clear(data) == "zeroed"

\* TlsSession::new; an Option is modelled as a sequence of at most one value
TlsSession_new ==
    [state |-> "Initial", kyber_keypair |-> <<>>, shared_secret |-> <<>>,
     operations_count |-> 0, last_renewed |-> FixedNow,
     session_timeout |-> SessionTimeoutSecs]

\* update_session_time: the session is closed when more than
\* session_timeout has passed since last_renewed (a negative duration
\* counts as 0)
update_session_time(s) ==
    LET since == IF FixedNow >= s.last_renewed
                 THEN FixedNow - s.last_renewed ELSE 0
    IN IF since > s.session_timeout
       THEN [session |-> [s EXCEPT !.state = "Closed"], ok |-> FALSE]
       ELSE [session |-> s, ok |-> TRUE]

\* renew_session
renew_session(s) == [session |-> [s EXCEPT !.last_renewed = FixedNow], ok |-> TRUE]

\* begin_handshake, generate_kyber_keys included
begin_handshake(s) ==
    LET u == update_session_time(s) IN
    IF ~u.ok
    THEN [session |-> u.session, ok |-> FALSE]
    ELSE [session |-> [u.session EXCEPT !.state = "HandshakeInProgress",
                                        !.kyber_keypair = <<keypair>>,
                                        !.operations_count = @ + 1],
          ok |-> TRUE]

\* perform_key_exchange
perform_key_exchange(s) ==
    IF s.kyber_keypair = <<>>
    THEN [session |-> s, ok |-> FALSE]
    ELSE LET kp == s.kyber_keypair[1]
             enc == encapsulate(kp.public_key)
             decapsulated == decapsulate(enc.ciphertext, kp.secret_key)
         IN IF enc.shared_secret # decapsulated
            THEN [session |-> s, ok |-> FALSE]
            ELSE [session |-> [s EXCEPT !.shared_secret = <<enc.shared_secret>>,
                                        !.state = "Connected",
                                        !.operations_count = @ + 1],
                  ok |-> TRUE]

\* close: the secret key is cleared in place, the keypair stays
close(s) ==
    [session |-> [s EXCEPT
                    !.kyber_keypair =
                        IF @ = <<>> THEN <<>>
                        ELSE <<[@[1] EXCEPT !.secret_key = secure_clear(@)]>>,
                    !.state = "Closed"],
     ok |-> TRUE]

\* everything but the session
notTls == <<pool, lent, hist, config, providers, ppool, pmetrics, mmetrics,
            audit_trail, task, iter_order, observed, etl, vcache, tbatch>>

\* a call on the session: its effect, and a note of the call in tls.calls
TlsCalled(op, r) ==
    /\ tls.pc = "built"
    /\ Len(tls.calls) < MaxTlsCalls
    /\ tls' = [tls EXCEPT !.session = r.session,
                          !.calls = Append(@, [op |-> op,
                                               from |-> tls.session.state,
                                               ok |-> r.ok])]
    /\ UNCHANGED notTls

TlsBeginHandshake == TlsCalled("begin_handshake", begin_handshake(tls.session))
TlsPerformKeyExchange ==
    TlsCalled("perform_key_exchange", perform_key_exchange(tls.session))
TlsClose == TlsCalled("close", close(tls.session))
TlsRenewSession == TlsCalled("renew_session", renew_session(tls.session))
TlsUpdateSessionTime ==
    TlsCalled("update_session_time", update_session_time(tls.session))

TlsInit ==
    /\ tls = [pc |-> "built", session |-> TlsSession_new, calls |-> <<>>]
    /\ iter_order = <<>>
    /\ observed = <<>>
    /\ EtlIdle
    /\ CacheIdle
    /\ BatchIdle
    /\ MgrIdle
    /\ PoolIdle

TlsNext ==
    \/ TlsBeginHandshake
    \/ TlsPerformKeyExchange
    \/ TlsClose
    \/ TlsRenewSession
    \/ TlsUpdateSessionTime

TlsSpec == TlsInit /\ [][TlsNext]_vars

\* ------------------------------------------------------------- claim C22
LastTlsCall == tls.calls[Len(tls.calls)]

\* C22: a TlsSession starts in Initial; begin_handshake from Initial leaves
\* it in HandshakeInProgress with a Kyber keypair present; a
\* perform_key_exchange that follows a begin_handshake leaves it in
\* Connected with a shared secret present; close leaves it in Closed.
C22_SessionLifecycle ==
    tls.pc = "built" =>
        /\ tls.calls = <<>> => tls.session.state = "Initial"
        /\ tls.calls # <<>> =>
            LET n == Len(tls.calls) IN
            /\ (LastTlsCall.op = "begin_handshake" /\ LastTlsCall.from = "Initial")
                => /\ LastTlsCall.ok
                   /\ tls.session.state = "HandshakeInProgress"
                   /\ tls.session.kyber_keypair # <<>>
            /\ (/\ n >= 2
                /\ LastTlsCall.op = "perform_key_exchange"
                /\ tls.calls[n - 1].op = "begin_handshake")
                => /\ LastTlsCall.ok
                   /\ tls.session.state = "Connected"
                   /\ tls.session.shared_secret # <<>>
            /\ LastTlsCall.op = "close"
                => /\ LastTlsCall.ok
                   /\ tls.session.state = "Closed"

\* the session of test_session_closure: new, begin_handshake,
\* perform_key_exchange, close
C22_Witness ==
    /\ tls.pc = "built"
    /\ Len(tls.calls) = 3
    /\ tls.calls[1] = [op |-> "begin_handshake", from |-> "Initial", ok |-> TRUE]
    /\ tls.calls[2] = [op |-> "perform_key_exchange",
                       from |-> "HandshakeInProgress", ok |-> TRUE]
    /\ tls.calls[3] = [op |-> "close", from |-> "Connected", ok |-> TRUE]
    /\ tls.session.state = "Closed"
    /\ tls.session.shared_secret # <<>>

\* -------------------------------------------------------- TransactionBatch
\* TransactionBatch::new(batch_size)
TransactionBatch_new(batch_size) ==
    [transactions |-> <<>>, batch_size |-> batch_size]

\* add_transaction: refused when the batch is full, else push_back
add_transaction(b, transaction) ==
    IF is_full(b.transactions, b.batch_size)
    THEN [batch |-> b, ok |-> FALSE]
    ELSE [batch |-> [b EXCEPT !.transactions = Append(@, transaction)],
          ok |-> TRUE]

\* get_next_transaction: pop_front, None on an empty batch
get_next_transaction(b) ==
    IF b.transactions = <<>>
    THEN [batch |-> b, ok |-> FALSE]
    ELSE [batch |-> [b EXCEPT !.transactions = Tail(@)], ok |-> TRUE]

\* everything but the batch
notBatch == <<pool, lent, hist, config, providers, ppool, pmetrics, mmetrics,
              audit_trail, task, iter_order, observed, etl, vcache, tls>>

\* a call on the batch: its effect, and a note of the call in tbatch.calls
BatchCalled(op, r) ==
    /\ tbatch.pc = "built"
    /\ Len(tbatch.calls) < MaxBatchCalls
    /\ tbatch' = [tbatch EXCEPT
                    !.batch = r.batch,
                    !.calls = Append(@, [op |-> op,
                                         before |-> tbatch.batch.transactions,
                                         ok |-> r.ok])]
    /\ UNCHANGED notBatch

BatchAdd(transaction) ==
    BatchCalled("add_transaction", add_transaction(tbatch.batch, transaction))
BatchGetNext ==
    BatchCalled("get_next_transaction", get_next_transaction(tbatch.batch))

BatchInit ==
    /\ \E batch_size \in 0..MaxBatchSize :
        tbatch = [pc |-> "built", batch |-> TransactionBatch_new(batch_size),
                  calls |-> <<>>]
    /\ iter_order = <<>>
    /\ observed = <<>>
    /\ EtlIdle
    /\ CacheIdle
    /\ TlsIdle
    /\ MgrIdle
    /\ PoolIdle

BatchNext ==
    \/ \E transaction \in DrawnTransactions : BatchAdd(transaction)
    \/ BatchGetNext

BatchSpec == BatchInit /\ [][BatchNext]_vars

\* ------------------------------------------------------------- claim C23
LastBatchCall == tbatch.calls[Len(tbatch.calls)]

\* C23: add_transaction on a batch that already holds batch_size
\* transactions returns an error and leaves the contents unchanged; after
\* any sequence of add_transaction and get_next_transaction the batch
\* never holds more than batch_size transactions.
C23_FullBatchRefusesAdd ==
    tbatch.pc = "built" =>
        /\ Len(tbatch.batch.transactions) <= tbatch.batch.batch_size
        /\ (/\ tbatch.calls # <<>>
            /\ LastBatchCall.op = "add_transaction"
            /\ Len(LastBatchCall.before) >= tbatch.batch.batch_size)
            => /\ ~LastBatchCall.ok
               /\ tbatch.batch.transactions = LastBatchCall.before

\* test_batch_operations with one get_next_transaction before: a batch of
\* size 2, filled again after a removal, has refused a third transaction
C23_Witness ==
    /\ tbatch.pc = "built"
    /\ tbatch.batch.batch_size = 2
    /\ \E i \in 1..Len(tbatch.calls) :
        tbatch.calls[i].op = "get_next_transaction" /\ tbatch.calls[i].ok
    /\ LastBatchCall.op = "add_transaction"
    /\ ~LastBatchCall.ok
    /\ Len(tbatch.batch.transactions) = 2

\* ------------------------------------------------------------- claim C24
\* the contexts the callers of the Manager hold
CallerContexts == {CallerContext(audit_required) : audit_required \in BOOLEAN}

\* C24: the audit record appended by generate_pqc_key carries the
\* OperationContext (user, application, session) that the caller supplied;
\* the Manager never originates those identifiers itself.
C24_AuditCarriesCallerContext ==
    \A i \in 1..Len(audit_trail) :
        audit_trail[i].operation = "KeyGeneration" =>
            \E context \in CallerContexts :
                /\ audit_trail[i].context.user_id = context.user_id
                /\ audit_trail[i].context.application_id = context.application_id
                /\ audit_trail[i].context.session_id = context.session_id

\* ------------------------------------------------------ claims C25, C26
Balanced(m) ==
    m.total_operations = m.successful_operations + m.failed_operations

\* a generate_pqc_key call that resolved to provider p, was delegated to it
\* and has returned its result
CompletedOn(tasks, t, p) ==
    /\ tasks[t].pc = "done"
    /\ tasks[t].invoked = <<p>>
    /\ tasks[t].result = tasks[t].presult

\* C25: each provider's metrics satisfy total_operations =
\* successful_operations + failed_operations: every completed
\* generate_pqc_key adds 1 to the resolved provider's total and 1 to exactly
\* one of its success and failure counters.  Stated for the states in
\* which no call is under way, for the metrics each provider keeps and for
\* the entries the Manager keeps.
C25_TotalIsSuccessPlusFailure ==
    AllReturned =>
        /\ \A p \in DOMAIN pmetrics : Balanced(pmetrics[p])
        /\ \A p \in DOMAIN mmetrics : Balanced(mmetrics[p])

\* C26: the metrics get_aggregated_metrics returns for a provider reflect
\* every completed Manager operation on it: after n completed calls
\* resolved to provider P, the entry for P is present and reports
\* total_operations = n.
C26_AggregatedTotalsCountCalls ==
    \A i \in 1..Len(observed) :
        IsMetricsRead(i) =>
            \A p \in RegistrableProviders :
                LET n == Cardinality({t \in Tasks : CompletedOn(observed[i].at, t, p)})
                IN n > 0 =>
                    /\ p \in DOMAIN observed[i].result
                    /\ observed[i].result[p].total_operations = n

\* ------------------------------------------------------ claims C27, C28
\* the total the Manager has counted for provider p
TotalOperations(m, p) == IF p \in DOMAIN m THEN m[p].total_operations ELSE 0

\* call t is a crypto_operation whose key has been resolved, and it returns
\* in this step
CryptoReturns(t) ==
    /\ task[t].kind = "crypto_operation"
    /\ KeyResolved(t)
    /\ task[t].pc # "done"
    /\ task'[t].pc = "done"

\* C27: for every crypto_operation call whose key resolves to a provider,
\* that provider's total operation count is incremented by exactly 1,
\* regardless of audit_required, of the provider's outcome and of whether
\* the audit append succeeded.
C27_CryptoAlwaysCounted ==
    [][\A t \in Tasks :
         CryptoReturns(t) =>
            TotalOperations(mmetrics', task[t].provider_type) =
                TotalOperations(mmetrics, task[t].provider_type) + 1]_vars

\* C28: crypto_operation delegates to the provider that owns op.key_id,
\* i.e. the provider on which that key was generated, also when several
\* providers are registered.
C28_DelegatesToOwningProvider ==
    \A t \in Tasks, g \in Tasks :
        (/\ IsCall(t, "crypto_operation")
         /\ task[t].invoked # <<>>
         /\ g < t
         /\ IsCall(g, "generate_pqc_key")
         /\ task[g].pc = "done"
         /\ task[g].result = "Ok"
         /\ task[g].key_id = task[t].key_id)
        => task[t].invoked = <<task[g].provider_type>>

\* ------------------------------------------------------------- claim C29
\* HsmManager::new inserts the providers in this order
RegistrationOrder == <<"AwsCloudHsm", "AzureKeyVault", "Pkcs11Generic">>

InRegistrationOrder(ps) == SelectSeq(RegistrationOrder, LAMBDA p : p \in ps)

\* the providers call t has asked for its key so far, in the order asked
Queried(t) ==
    SubSeq(iter_order, 1,
           IF task[t].next < Len(iter_order) THEN task[t].next ELSE Len(iter_order))

\* C29: get_key(k) queries the registered providers in registration order
\* and returns the handle of the first provider that holds k; when two
\* providers hold k the result is always the one registered first.
C29_QueriesInRegistrationOrder ==
    \A t \in Tasks :
        IsCall(t, "get_key") =>
            /\ Queried(t) = SubSeq(InRegistrationOrder(providers), 1, Len(Queried(t)))
            /\ task[t].result = "Ok" =>
                 task[t].handle.provider = Queried(t)[Len(Queried(t))]

\* ------------------------------------------------------------- claim C30
\* C30: every provider call the Manager makes (generate_pqc_key, get_key and
\* crypto_operation) is bounded by the per-call timeout: if the backend
\* operation has not completed when the timer fires, the caller receives
\* OperationTimeout instead of waiting for the backend.  With
\* timeout_seconds = 0 the timer has fired before any backend operation
\* that suspends completes, so no call may return what the backend
\* produced after its wait.
C30_EveryProviderCallIsTimed ==
    config.timeout_seconds = 0 =>
        \A t \in Tasks :
            Done(t) =>
                /\ task[t].presult # "Ok"
                /\ task[t].kind = "get_key" => task[t].result # "Ok"
                /\ task[t].kind = "crypto_operation" => ~KeyResolved(t)

\* ------------------------------------------------- provider key operations
\* AwsCloudHsmProvider::delete_key: after its sleep it answers Ok(()); the
\* provider keeps no record of its keys that it could remove
delete_key(provider_type, key_id) == [res |-> "Ok"]

\* delete_key(key_id) is called on the backend p
DeleteKeyCall(t, p, key_id) ==
    /\ task[t].pc = "idle"
    /\ \A u \in Tasks : u < t => task[u].pc # "idle"
    /\ p \in providers
    /\ task' = [task EXCEPT ![t].pc = "deleting", ![t].kind = "delete_key",
                            ![t].key_id = key_id, ![t].provider_type = p]
    /\ UNCHANGED <<config, providers, ppool, pmetrics, mmetrics, audit_trail>>
    /\ UNCHANGED poolVars
    /\ UNCHANGED auxVars

\* the backend's delete_key wakes up and returns
DeleteKeyWake(t) ==
    /\ task[t].pc = "deleting"
    /\ task' = [task EXCEPT ![t].pc = "done",
                            ![t].result = delete_key(task[t].provider_type,
                                                     task[t].key_id).res]
    /\ UNCHANGED <<config, providers, ppool, pmetrics, mmetrics, audit_trail>>
    /\ UNCHANGED poolVars
    /\ UNCHANGED auxVars

\* keys are generated, looked up and deleted, one call after another
KeyNext ==
    \E t \in Tasks :
        \/ /\ AllReturned
           /\ \E algorithm \in OpsAlgorithms, key_id \in DrawableKeys :
                 GenCall(t, algorithm, key_id, None)
        \/ GenWake(t)
        \/ GenTimeout(t)
        \/ GenFinish(t, MinLatencyMs)
        \/ /\ AllReturned
           /\ \E key_id \in DrawableKeys : GetKeyCall(t, key_id)
        \/ LookupStep(t)
        \/ LookupWake(t)
        \/ /\ AllReturned
           /\ \E p \in providers, key_id \in DrawableKeys : DeleteKeyCall(t, p, key_id)
        \/ DeleteKeyWake(t)

KeySpec == OpsInit /\ [][KeyNext]_vars

\* ------------------------------------------------------------- claim C31
\* a generate_pqc_key call that put key_id on provider p, made between the
\* calls d and t
RegeneratedBetween(d, t) ==
    \E g \in Tasks :
        /\ d < g /\ g < t
        /\ IsCall(g, "generate_pqc_key")
        /\ task[g].key_id = task[d].key_id
        /\ task[g].provider_type = task[d].provider_type

\* C31: after delete_key(k) succeeds on a backend, get_key(k) on that
\* backend fails with KeyNotFound (no later get_key obtains a handle for k
\* from that backend), while handle values returned to callers before the
\* deletion are unchanged.
C31_DeletedKeyIsNotFound ==
    \A d \in Tasks, t \in Tasks :
        (/\ IsCall(d, "delete_key")
         /\ task[d].result = "Ok"
         /\ d < t
         /\ IsCall(t, "get_key")
         /\ task[t].key_id = task[d].key_id
         /\ ~RegeneratedBetween(d, t)
         /\ task[t].result = "Ok")
        => task[t].handle.provider # task[d].provider_type

\* ------------------------------------------------------------- claim C32
IsPrefix(s, r) == Len(s) <= Len(r) /\ SubSeq(r, 1, Len(s)) = s

\* C32: the audit trail is append-only: across any sequence of Manager
\* operations the sequence of audit records only grows, and a record once
\* appended is never modified or removed.
C32_AuditTrailAppendOnly == [][IsPrefix(audit_trail, audit_trail')]_vars

\* a key generation and a crypto operation have both been recorded, the
\* first record still in its place
C32_Witness ==
    /\ Len(audit_trail) >= 2
    /\ audit_trail[1].operation = "KeyGeneration"
    /\ \E i \in 2..Len(audit_trail) : audit_trail[i].operation # "KeyGeneration"
    /\ \E t \in Tasks : Done(t) /\ task[t].appended = <<audit_trail[1]>>

\* ---------------------------------------- generate_pqc_key with latencies
\* MgrNext with calls that take different times
LatNext ==
    \E t \in Tasks :
        \/ \E algorithm \in DrawnAlgorithms, key_id \in DrawableKeys, pref \in Preferences :
               GenCall(t, algorithm, key_id, pref)
        \/ GenWake(t)
        \/ GenTimeout(t)
        \/ \E latency_ms \in Latencies : GenFinish(t, latency_ms)

LatSpec == MgrInit /\ [][LatNext]_vars

\* ------------------------------------------------------------- claim C33
\* the Manager operations delegated to provider p that have returned
ReturnedOn(p) == {t \in Tasks : Done(t) /\ task[t].invoked = <<p>>}

\* some of the calls in ops started while another call was under way
Overlapping(ops) == Cardinality(ops) >= 2 /\ \E t \in ops : ~task[t].sequential

RECURSIVE MaxLatency(_)
MaxLatency(ops) ==
    IF ops = {} THEN 0
    ELSE LET t == CHOOSE u \in ops : TRUE
         IN Max(task[t].latency_ms, MaxLatency(ops \ {t}))

\* C33: when N Manager operations resolved to the same provider complete
\* concurrently, no metrics update is lost: the provider's total_operations
\* has increased by exactly N (from 0, the Manager being new) and its peak
\* latency is the largest latency among these operations.
C33_NoMetricsUpdateLost ==
    AllReturned =>
        \A p \in providers :
            Overlapping(ReturnedOn(p)) =>
                /\ TotalOperations(mmetrics, p) = Cardinality(ReturnedOn(p))
                /\ mmetrics[p].peak_latency_ms = MaxLatency(ReturnedOn(p))

\* ------------------------------------------------------------- claim C34
\* call t has resolved its provider
Resolved(t) == task[t].pc # "idle"

SameInputs(t, u) ==
    /\ task[t].algorithm = task[u].algorithm
    /\ task[t].preferred = task[u].preferred

CheckedOut(p) == p.current_connections - Len(p.connections)

\* C35: after any provider operation that borrowed a pool connection has
\* finished (with success, with an error such as an unsupported algorithm,
\* or with a timeout) the connection has been returned: when no call is
\* under way, no connection of any provider's pool is checked out, as
\* before the first call.
C35_ConnectionsAreReturned ==
    AllReturned => \A p \in providers : CheckedOut(ppool[p]) = 0

\* ------------------------------------------------------------- claim C36
\* the handle a successful generate_pqc_key call g returned
GeneratedHandle(g) ==
    [key_id |-> task[g].key_id, algorithm |-> task[g].algorithm,
     provider |-> task[g].provider_type]

\* C36: after generate_pqc_key(algorithm, k) succeeds on a provider,
\* get_key(k) answered by that provider returns a handle with the same
\* key_id, the same algorithm and the same owning provider as the handle of
\* the generation call, for every supported algorithm (no deletion of k
\* lying between the two calls).
C36_GetKeyReturnsGeneratedHandle ==
    \A g \in Tasks, t \in Tasks :
        (/\ IsCall(g, "generate_pqc_key")
         /\ task[g].result = "Ok"
         /\ g < t
         /\ IsCall(t, "get_key")
         /\ task[t].key_id = task[g].key_id
         /\ task[t].result = "Ok"
         /\ \A d \in Tasks : (g < d /\ d < t) => ~IsCall(d, "delete_key"))
        => (task[t].handle.provider = task[g].provider_type
                => task[t].handle = GeneratedHandle(g))

\* ------------------------------------------------------- claims C37, C38
\* C37: process_transactions terminates for every finite input and every
\* batch_size >= 1, inputs with more valid transactions than batch_size
\* included: a call that has started returns, no send into the bounded
\* channel blocks forever.
C37_ProcessTransactionsTerminates ==
    (etl.pc \notin {"idle", "returned"}) ~> (etl.pc = "returned")

\* the valid transactions of a sequence, counted
RECURSIVE NumValid(_)
NumValid(transactions) ==
    IF transactions = <<>> THEN 0
    ELSE (IF validate(Head(transactions)) THEN 1 ELSE 0) + NumValid(Tail(transactions))

\* C38: when process_transactions returns, its metrics satisfy
\* processed_transactions + failed_transactions = total_transactions, and
\* processed_transactions is the number of valid transactions of the input.
C38_MetricsAddUp ==
    etl.pc = "returned" =>
        /\ etl.metrics.processed_transactions + etl.metrics.failed_transactions
               = etl.metrics.total_transactions
        /\ etl.metrics.processed_transactions = NumValid(etl.input)

\* ------------------------------------------------------------- claim C40
\* the call made in this step is one of ops
TlsCalls(ops) ==
    /\ Len(tls'.calls) = Len(tls.calls) + 1
    /\ tls'.calls[Len(tls'.calls)].op \in ops

\* C40: Closed is a terminal state of a TlsSession: once close() has run
\* (or the session has timed out), no later begin_handshake or
\* perform_key_exchange call moves the session out of Closed.
C40_ClosedIsTerminal ==
    [][(/\ tls.pc = "built"
        /\ tls.session.state = "Closed"
        /\ TlsCalls({"begin_handshake", "perform_key_exchange"}))
       => tls'.session.state = "Closed"]_vars

\* ------------------------------- the other calls on a ValidationCache
\* get_statistics line 215: `let stats = self.stats.read()`, kept to the
\* end of the function
GsStatsRead(th) ==
    /\ vcache.thr[th].pc = "idle"
    /\ \A u \in Threads : u < th => vcache.thr[u].pc # "idle"
    /\ vcache' = [vcache EXCEPT !.stats_readers = @ \cup {th},
                                !.thr[th].pc = "gs_cache"]
    /\ UNCHANGED notCache

\* get_statistics lines 216-227: `self.cache.read().len()` with the stats
\* guard still held, then the statistics are returned and the guard dropped
GsCacheRead(th) ==
    /\ vcache.thr[th].pc = "gs_cache"
    /\ vcache.cache_writer = 0
    /\ vcache' = [vcache EXCEPT !.stats_readers = @ \ {th},
                                !.thr[th].pc = "done"]
    /\ UNCHANGED notCache

\* clear_cache lines 200-201: cache.write(), cache.clear()
CcClear(th) ==
    /\ vcache.thr[th].pc = "idle"
    /\ \A u \in Threads : u < th => vcache.thr[u].pc # "idle"
    /\ vcache.cache_writer = 0 /\ vcache.cache_readers = {}
    /\ vcache' = [vcache EXCEPT !.cache_writer = th,
                                !.cache = NoEntries,
                                !.thr[th].pc = "cc_stats"]
    /\ UNCHANGED notCache

\* clear_cache lines 203-205: stats.write() with the cache guard still
\* held, current_size = 0
CcStats(th) ==
    /\ vcache.thr[th].pc = "cc_stats"
    /\ StatsWritable
    /\ vcache' = [vcache EXCEPT !.stats.current_size = 0,
                                !.cache_writer = 0,
                                !.thr[th].pc = "done"]
    /\ UNCHANGED notCache

\* cleanup_expired lines 232-233: current_time, cache.write()
CeLock(th) ==
    /\ vcache.thr[th].pc = "idle"
    /\ \A u \in Threads : u < th => vcache.thr[u].pc # "idle"
    /\ vcache.cache_writer = 0 /\ vcache.cache_readers = {}
    /\ vcache' = [vcache EXCEPT !.cache_writer = th,
                                !.thr[th].pc = "ce_cleanup",
                                !.thr[th].current_time = vcache.clock]
    /\ UNCHANGED notCache

\* cleanup_expired line 234: cleanup_expired_entries under the cache guard,
\* with its stats.write() for last_cleanup
CeCleanup(th) ==
    /\ vcache.thr[th].pc = "ce_cleanup"
    /\ LET me == vcache.thr[th]
           ages_panic ==
               \E k \in DOMAIN vcache.cache :
                   sub_u64(me.current_time, vcache.cache[k].timestamp,
                           vcache.overflow_checks).kind = "panic"
       IN
       IF ages_panic
       THEN vcache' = [vcache EXCEPT !.cache_writer = 0,
                                     !.thr[th].pc = "panicked"]
       ELSE /\ StatsWritable
            /\ vcache' = [vcache EXCEPT
                            !.cache = Without(@, ExpiredKeys(@, me.current_time,
                                                             vcache.ttl_seconds,
                                                             vcache.overflow_checks)),
                            !.thr[th].pc = "ce_stats"]
    /\ UNCHANGED notCache

\* cleanup_expired lines 236-237: stats.write(), current_size = cache.len()
CeStats(th) ==
    /\ vcache.thr[th].pc = "ce_stats"
    /\ StatsWritable
    /\ vcache' = [vcache EXCEPT
                    !.stats.current_size = Cardinality(DOMAIN vcache.cache),
                    !.cache_writer = 0,
                    !.thr[th].pc = "done"]
    /\ UNCHANGED notCache

\* the four calls of the cache from the threads sharing it
LockNext ==
    \/ \E th \in Threads :
        \/ \E tx \in CacheTransactions : VtBegin(th, tx)
        \/ VtLookup(th)
        \/ VtHitStats(th)
        \/ VtHitUpdate(th)
        \/ VtMissStats(th)
        \/ VtInsertLock(th)
        \/ VtInsertBody(th)
        \/ GsStatsRead(th)
        \/ GsCacheRead(th)
        \/ CcClear(th)
        \/ CcStats(th)
        \/ CeLock(th)
        \/ CeCleanup(th)
        \/ CeStats(th)
    \/ Tick

\* a thread that can take a step of its call does take one
LockSpec == CacheInit /\ [][LockNext]_vars /\ WF_vars(LockNext)

\* ------------------------------------------------------------- claim C39
Returned(th) == vcache.thr[th].pc \in {"done", "panicked"}

\* C39: any interleaving of concurrent validate_transaction,
\* get_statistics, clear_cache and cleanup_expired calls on one
\* ValidationCache is deadlock-free (the cache lock and the statistics lock
\* are never taken in opposite orders): every call eventually returns.
C39_EveryCallReturns == <>(\A th \in Threads : Returned(th))
====
